---- MODULE Spec2Model ----
(***************************************************************************)
(* MCP tool Hosts (math, weather, wikipedia, arxiv, tavily) and their      *)
(* stdio Client demos, as one state machine.                                *)
(*                                                                          *)
(* A Client spawns a Host, opens a Session on the Host's stdin/stdout,      *)
(* performs the initialize handshake, lists the tools and calls them, one   *)
(* request at a time, then leaves the "async with" blocks, which closes     *)
(* the Session.  The tool bodies, the registries (the functions decorated   *)
(* with @mcp.tool()) and the Clients' scripts are taken from "src/6. MCP".  *)
(* The dispatcher and the session layer belong to the mcp package, which    *)
(* the Hosts and Clients only call: they follow sections 4.1, 4.2 and 7 of  *)
(* the specification.                                                       *)
(***************************************************************************)
EXTENDS Integers, Sequences, FiniteSets, TLC

\* ------------------------------------------------------------------ bounds

\* Numeric operands a peer may send: -MaxNeg..MaxNum.
MaxNeg == 1
MaxNum == 1
\* Sessions opened in one run.
MaxSessions == 2
\* Requests a peer sends on one Session.
MaxRequests == 3
\* Tool calls of the agent's model in one run.
MaxRounds == 3
\* Subjects the model answers generate_topics with.
MaxSubjects == 3
\* Tool calls of the model in one run of the tool-executor graph.
MaxTurns == 2
\* Days in the list of a forecast response.
MaxDays == 6
\* Characters of a text an embedding is asked of.
MaxChars == 2
\* Calls of get_embedding and get_embeddings_batch.
MaxCalls == 3
\* Texts of one get_embeddings_batch call.
MaxBatch == 2
\* the largest base and exponent of a calculate_power call
MaxBase == 4
\* the chat inputs submitted to the chatbot
MaxInputs == 3
\* the largest max_questions
MaxQuestion == 3

Num == (0 - MaxNeg)..MaxNum

\* ------------------------------------------------------------------ values

\* An argument value: a JSON number or a JSON string.
N(x) == [t |-> "num", v |-> x]
S(i) == [t |-> "str", v |-> i]

\* A text block.  s is the message (or, for a number, the Python type whose
\* repr the text is), of names the tool or field the message is about, and
\* num/den is the number the text is the repr of.
Txt(msg, about) == [s |-> msg, of |-> about, num |-> 0, den |-> 1]

RECURSIVE Gcd(_, _)
Gcd(a, b) == IF b = 0 THEN a ELSE Gcd(b, a % b)

Abs(x) == IF x < 0 THEN -x ELSE x

\* repr of the float n/d (d # 0), in lowest terms with a positive denominator.
FloatTxt(n, d) ==
    LET g == Gcd(Abs(n), Abs(d))
        sg == IF d < 0 THEN -1 ELSE 1
    IN  [s |-> "float", of |-> "", num |-> sg * (n \div g), den |-> Abs(d) \div g]

\* repr of the int n.
IntTxt(n) == [s |-> "int", of |-> "", num |-> n, den |-> 1]

\* repr of the float a ** 0.5 of a non-square a >= 0.
RootTxt(a) == [s |-> "float sqrt", of |-> "", num |-> a, den |-> 1]

\* What a tool function does: return a value or raise, after http requests.
Return(txt) == [raised |-> FALSE, text |-> txt, http |-> 0]

Raise(msg) == [raised |-> TRUE, text |-> Txt(msg, ""), http |-> 0]

After(n, r) == [r EXCEPT !.http = r.http + n]

\* ------------------------------------------------------------------ math_server.py

RECURSIVE Pow(_, _)
Pow(a, b) == IF b = 0 THEN 1 ELSE a * Pow(a, b - 1)

RECURSIVE Fact(_)
Fact(n) == IF n <= 1 THEN 1 ELSE n * Fact(n - 1)

IsSquare(a) == \E r \in 0..a : r * r = a
Root(a) == CHOOSE r \in 0..a : r * r = a

\* add with the sign of its second operand lost.
add_wrong(a, b) == Return(FloatTxt(a - b, 1))

add(a, b) == Return(FloatTxt(a + b, 1))

subtract(a, b) == Return(FloatTxt(a - b, 1))

multiply(a, b) == Return(FloatTxt(a * b, 1))

divide(a, b) ==
    IF b = 0 THEN Raise("Cannot divide by zero")
    ELSE Return(FloatTxt(a, b))
\* power with * where the source has **.
power_times(a, b) == Return(FloatTxt(a * b, 1))

\* a ** b on floats: 0.0 to a negative power raises ZeroDivisionError.
power(a, b) ==
    IF b >= 0 THEN Return(FloatTxt(Pow(a, b), 1))
    ELSE IF a = 0 THEN Raise("0.0 cannot be raised to a negative power")
    ELSE Return(FloatTxt(1, Pow(a, -b)))
\* sqrt without its check of the sign.
sqrt_unchecked(a) ==
    IF IsSquare(a) THEN Return(FloatTxt(Root(a), 1)) ELSE Return(RootTxt(a))

sqrt(a) ==
    IF a < 0 THEN Raise("Cannot calculate square root of negative number")
    ELSE IF IsSquare(a) THEN Return(FloatTxt(Root(a), 1))
    ELSE Return(RootTxt(a))

factorial(n) ==
    IF n < 0 THEN Raise("Factorial is not defined for negative numbers")
    ELSE IF n = 0 \/ n = 1 THEN Return(IntTxt(1))
    ELSE Return(IntTxt(Fact(n)))

\* ------------------------------------------------------------------ registries

\* The functions each Host module decorates with @mcp.tool(), in source order.
MathTools == <<"add", "subtract", "multiply", "divide", "power", "sqrt", "factorial">>

WeatherTools == <<"get_forecast", "get_current_conditions", "get_weather_by_city">>

\* The wikipedia registrations with one name registered twice.
WikipediaTools_dup ==
    <<"search_wikipedia", "get_wikipedia_summary", "get_wikipedia_content",
      "get_wikipedia_summary">>

WikipediaTools ==
    <<"search_wikipedia", "get_wikipedia_summary", "get_wikipedia_content",
      "get_random_wikipedia">>

ArxivTools == <<"search_papers", "search_by_author", "search_by_category">>

TavilyTools == <<"search", "search_news">>

\* server_map of run_server.py, less the context7 entry, whose file is not
\* part of the repository.
Hosts == {"math", "weather", "wikipedia", "arxiv", "tavily"}

Registered(h) ==
    CASE h = "math" -> MathTools
      [] h = "weather" -> WeatherTools
      [] h = "wikipedia" -> WikipediaTools
      [] h = "arxiv" -> ArxivTools
      [] h = "tavily" -> TavilyTools

Range(q) == {q[i] : i \in 1..Len(q)}

\* A parameter of a tool function: its name, its annotation, and whether the
\* signature gives it no default.
P(n, ty, req) == [name |-> n, type |-> ty, required |-> req]

\* The signatures of the decorated functions.
Params(tool) ==
    CASE tool \in {"add", "subtract", "multiply", "divide", "power"} ->
             <<P("a", "float", TRUE), P("b", "float", TRUE)>>
      [] tool = "sqrt" -> <<P("a", "float", TRUE)>>
      [] tool = "factorial" -> <<P("n", "int", TRUE)>>
      [] tool \in {"get_forecast", "get_current_conditions"} ->
             <<P("latitude", "float", TRUE), P("longitude", "float", TRUE)>>
      [] tool = "get_weather_by_city" ->
             <<P("city", "str", TRUE), P("country_code", "str", FALSE)>>
      [] tool = "search_wikipedia" ->
             <<P("query", "str", TRUE), P("limit", "int", FALSE)>>
      [] tool = "get_wikipedia_summary" -> <<P("title", "str", TRUE)>>
      [] tool = "get_wikipedia_content" ->
             <<P("title", "str", TRUE), P("section", "str", FALSE)>>
      [] tool = "get_random_wikipedia" -> <<>>
      [] tool \in {"search_papers", "search", "search_news"} ->
             <<P("query", "str", TRUE), P("max_results", "int", FALSE)>>
      [] tool = "search_by_author" ->
             <<P("author", "str", TRUE), P("max_results", "int", FALSE)>>
      [] tool = "search_by_category" ->
             <<P("category", "str", TRUE), P("max_results", "int", FALSE)>>

\* What list() returns for a registry: one descriptor per entry, in order.
Descriptor(tool) == [name |-> tool, input_schema |-> Params(tool)]

ListTools(reg) == [i \in 1..Len(reg) |-> Descriptor(reg[i])]

\* A value fits an annotation: numbers fit float and int, strings fit str.
Fits(val, ty) == IF ty = "str" THEN val.t = "str" ELSE val.t = "num"

\* Validation that looks for missing parameters and not at the types.
Offending_lenient(tool, args) ==
    LET ps == Params(tool)
        I == {i \in 1..Len(ps) : ps[i].required /\ ps[i].name \notin DOMAIN args}
    IN  IF I = {} THEN ""
        ELSE ps[CHOOSE i \in I : \A j \in I : i <= j].name

\* The first parameter, in signature order, that is required and missing or
\* present with a value of the wrong type; "" when the arguments validate.
Offending(tool, args) ==
    LET ps == Params(tool)
        bad(i) == IF ps[i].name \in DOMAIN args
                  THEN ~Fits(args[ps[i].name], ps[i].type)
                  ELSE ps[i].required
        I == {i \in 1..Len(ps) : bad(i)}
    IN  IF I = {} THEN ""
        ELSE ps[CHOOSE i \in I : \A j \in I : i <= j].name

\* ------------------------------------------------------------------ upstream

\* What one HTTP request of a tool can come to:
\*   "status"   the server answers with an error status (raise_for_status raises)
\*   "network"  the request raises otherwise (timeout, connection, invalid body)
\*   "void"     200 with an empty JSON object
\*   "partial"  200 with an object that lacks the keys the tool reads
\*   "empty"    200 with the keys present and an empty result list
\*   "full"     200 with everything the tool reads
Upstream == {"status", "network", "void", "partial", "empty", "full"}

Failed(up) == up \in {"status", "network"}

\* The environment a Host process starts in, after load_dotenv: which API
\* keys are set.
Envs == [OPENWEATHERMAP_API_KEY : BOOLEAN, TAVILY_API_KEY : BOOLEAN]

\* ------------------------------------------------------------------ weather.py

\* None for a failed request, the parsed body otherwise.
make_weather_request(up) == IF Failed(up) THEN "None" ELSE up

\* get_forecast with a second try of a request that failed.
get_forecast_retrying(up) ==
    LET data == make_weather_request(up)
    IN  After(IF Failed(up) THEN 2 ELSE 1,
        IF data \in {"None", "void", "partial"}
        THEN Return(Txt("Unable to fetch forecast data for this location.", ""))
        ELSE IF data = "empty" THEN Return(Txt("5-Day Forecast for", "no days"))
        ELSE Return(Txt("5-Day Forecast for", "days")))

\* get_forecast raising where the source returns its apology.
get_forecast_raising(up) ==
    LET data == make_weather_request(up)
    IN  After(1,
        IF data \in {"None", "void", "partial"}
        THEN Raise("Unable to fetch forecast data for this location.")
        ELSE IF data = "empty" THEN Return(Txt("5-Day Forecast for", "no days"))
        ELSE Return(Txt("5-Day Forecast for", "days")))

get_forecast(up) ==
    LET data == make_weather_request(up)
    IN  After(1,
        IF data \in {"None", "void", "partial"}
        THEN Return(Txt("Unable to fetch forecast data for this location.", ""))
        ELSE IF data = "empty" THEN Return(Txt("5-Day Forecast for", "no days"))
        ELSE Return(Txt("5-Day Forecast for", "days")))

get_current_conditions(up) ==
    LET data == make_weather_request(up)
    IN  After(1,
        IF data \in {"None", "void"}
        THEN Return(Txt("Unable to fetch weather data for this location.", ""))
        ELSE IF data = "partial" THEN Raise("KeyError")
        ELSE IF data = "empty" THEN Raise("IndexError")
        ELSE Return(Txt("Current Weather in", "")))

get_weather_by_city(up) ==
    LET data == make_weather_request(up)
    IN  After(1,
        IF data \in {"None", "void"}
        THEN Return(Txt("Unable to fetch weather data for", "city"))
        ELSE IF data = "partial" THEN Raise("KeyError")
        ELSE IF data = "empty" THEN Raise("IndexError")
        ELSE Return(Txt("Current Weather in", "city")))

\* ------------------------------------------------------------------ wikipedia.py

make_wikipedia_request(up) == IF Failed(up) THEN "None" ELSE up

search_wikipedia(up) ==
    LET data == make_wikipedia_request(up)
    IN  After(1,
        IF data \in {"None", "void", "partial"}
        THEN Return(Txt("Unable to search Wikipedia or no results found.", ""))
        ELSE IF data = "empty"
        THEN Return(Txt("No Wikipedia articles found for:", "query"))
        ELSE Return(Txt("Title:", "results")))

get_wikipedia_summary(up) ==
    LET data == make_wikipedia_request(up)
    IN  After(1,
        IF data \in {"None", "void"}
        THEN Return(Txt("Unable to fetch summary for:", "title"))
        ELSE IF data \in {"partial", "empty"}
        THEN Return(Txt("No summary available for:", "title"))
        ELSE Return(Txt("Title:", "summary")))

\* With a section the tool reads the mobile-sections answer; without one it
\* falls back to the summary, a second request.
get_wikipedia_content(section, up1, up2) ==
    LET data == make_wikipedia_request(up1)
    IN  After(1,
        IF data \in {"None", "void"}
        THEN Return(Txt("Unable to fetch content for:", "title"))
        ELSE IF section
        THEN IF data = "partial" THEN Return(Txt("No sections found for:", "title"))
             ELSE IF data = "empty" THEN Return(Txt("Section not found.", "section"))
             ELSE Return(Txt("Section:", "section"))
        ELSE get_wikipedia_summary(up2))

get_random_wikipedia(up1, up2) ==
    LET data == make_wikipedia_request(up1)
    IN  After(1,
        IF data \in {"None", "void", "partial"}
        THEN Return(Txt("Unable to fetch random article.", ""))
        ELSE IF data = "empty" THEN Raise("IndexError")
        ELSE get_wikipedia_summary(up2))

\* ------------------------------------------------------------------ arxiv.py

make_arxiv_request(up) ==
    IF Failed(up) THEN [content |-> "str(e)", status |-> "error"]
    ELSE [content |-> up, status |-> "success"]

\* The papers of an answer: a single error entry when the body does not parse.
parse_arxiv_xml(content) ==
    IF content \in {"void", "partial"} THEN <<"error">>
    ELSE IF content = "empty" THEN <<>>
    ELSE <<"paper">>

format_paper(paper) ==
    IF paper = "error" THEN "Error: Failed to parse XML:" ELSE "Title:"

\* search_papers, search_by_author and search_by_category differ in the query
\* prefix, the sort key and the wording, which names the tool.
search_arxiv(tool, up) ==
    LET response == make_arxiv_request(up)
    IN  After(1,
        IF response.status = "error"
        THEN Return(Txt("Unable to search ArXiv:", response.content))
        ELSE LET papers == parse_arxiv_xml(response.content)
             IN  IF papers = <<>> THEN Return(Txt("No papers found", tool))
                 ELSE Return(Txt(format_paper(papers[1]), tool)))

\* ------------------------------------------------------------------ tavily.py

\* None without a key and for a failed request.
make_tavily_request(env, up) ==
    IF ~env.TAVILY_API_KEY THEN "None"
    ELSE IF Failed(up) THEN "None" ELSE up

\* search and search_news differ in the "days" field and in the wording.
search_tavily(tool, env, up) ==
    IF ~env.TAVILY_API_KEY
    THEN Return(Txt("Tavily API key not found. Please set TAVILY_API_KEY environment variable.", ""))
    ELSE LET response == make_tavily_request(env, up)
         IN  After(1,
             IF response \in {"None", "void"}
             THEN Return(Txt("Unable to perform search. Please check your query and try again.", tool))
             ELSE IF response \in {"partial", "empty"}
             THEN Return(Txt("No results found.", tool))
             ELSE Return(Txt("Results:", tool)))

\* The HTTP requests a tool's body may send: none in math_server.py and in
\* tavily.py without its key, two in get_wikipedia_content and
\* get_random_wikipedia, one in the others.
Requests(tool, env) ==
    IF tool \in {"get_wikipedia_content", "get_random_wikipedia"} THEN 2
    ELSE IF tool \in Range(WeatherTools) \cup Range(WikipediaTools) \cup Range(ArxivTools)
    THEN 1
    ELSE IF tool \in Range(TavilyTools) /\ env.TAVILY_API_KEY THEN 1
    ELSE 0

\* The outcomes the network can offer to one call of the tool.
Outcomes(tool, env) ==
    {ups \in Upstream \X Upstream :
        \A i \in 1..2 : i > Requests(tool, env) => ups[i] = "full"}

\* ------------------------------------------------------------------ dispatch

NoArgs == [x \in {} |-> N(0)]

\* The decorated function of a registered tool, applied to validated arguments.
\* ups are the outcomes of the HTTP requests the body may send, in order.
Handler(tool, args, ups, env) ==
    CASE tool = "add" -> add(args.a.v, args.b.v)
      [] tool = "subtract" -> subtract(args.a.v, args.b.v)
      [] tool = "multiply" -> multiply(args.a.v, args.b.v)
      [] tool = "divide" -> divide(args.a.v, args.b.v)
      [] tool = "power" -> power(args.a.v, args.b.v)
      [] tool = "sqrt" -> sqrt(args.a.v)
      [] tool = "factorial" -> factorial(args.n.v)
      [] tool = "get_forecast" -> get_forecast(ups[1])
      [] tool = "get_current_conditions" -> get_current_conditions(ups[1])
      [] tool = "get_weather_by_city" -> get_weather_by_city(ups[1])
      [] tool = "search_wikipedia" -> search_wikipedia(ups[1])
      [] tool = "get_wikipedia_summary" -> get_wikipedia_summary(ups[1])
      [] tool = "get_wikipedia_content" ->
             get_wikipedia_content("section" \in DOMAIN args, ups[1], ups[2])
      [] tool = "get_random_wikipedia" -> get_random_wikipedia(ups[1], ups[2])
      [] tool \in Range(ArxivTools) -> search_arxiv(tool, ups[1])
      [] tool \in Range(TavilyTools) -> search_tavily(tool, env, ups[1])

\* A ToolCallResult: a single text block and the error flag.  error names the
\* class of the call-level error, "" for none.
ToolCallResult(txt, err, class) ==
    [content |-> <<[type |-> "text", text |-> txt]>>, is_error |-> err, error |-> class]

NoResult == ToolCallResult(Txt("", ""), FALSE, "")

\* An unknown tool answered as a success.
UnknownTool_quiet(tool) ==
    [result |-> ToolCallResult(Txt("Unknown tool:", tool), FALSE, ""),
     invoked |-> FALSE, http |-> 0]

\* The dispatcher's answer to a name its registry does not hold.
UnknownTool(tool) ==
    [result |-> ToolCallResult(Txt("Unknown tool:", tool), TRUE, "UnknownToolError"),
     invoked |-> FALSE, http |-> 0]

\* dispatch(name, arguments) on a registry: look the name up, validate the
\* arguments against the signature, run the function and contain what it
\* raises.  invoked tells whether the function body ran.
Dispatch(reg, tool, args, ups, env) ==
    IF tool \notin Range(reg) THEN UnknownTool(tool)
    ELSE IF Offending(tool, args) # ""
    THEN [result |-> ToolCallResult(Txt("Invalid arguments:", Offending(tool, args)),
                                    TRUE, "InvalidArgumentsError"),
          invoked |-> FALSE, http |-> 0]
    ELSE LET r == Handler(tool, args, ups, env)
         IN  IF r.raised
             THEN [result |-> ToolCallResult([r.text EXCEPT !.of = tool], TRUE, "UpstreamError"),
                   invoked |-> TRUE, http |-> r.http]
             ELSE [result |-> ToolCallResult(r.text, FALSE, ""), invoked |-> TRUE,
                   http |-> r.http]

\* ------------------------------------------------------------------ messages

\* A request before it is sent, and the request on the wire with its
\* correlation identifier.
Req(kind, tool, args) == [kind |-> kind, tool |-> tool, args |-> args]

Wire(id, r) == [id |-> id, kind |-> r.kind, tool |-> r.tool, args |-> r.args]

NoReq == Wire(0, Req("none", "", NoArgs))

\* A response that does not carry the identifier of its request.
Resp_uncorrelated(id, kind, tools, result, error) ==
    [id |-> 0, kind |-> kind, tools |-> tools, result |-> result, error |-> error]

\* A response: the handshake answer, the tool list, a ToolCallResult, a
\* protocol error answered by the Host, or a Session-level error raised in
\* the Client.
Resp(id, kind, tools, result, error) ==
    [id |-> id, kind |-> kind, tools |-> tools, result |-> result, error |-> error]

NoResp == Resp(0, "none", <<>>, NoResult, "")

\* One request with its response: the Session it ran on, that Session's state
\* when the request was handled, whether a tool body ran, the outcomes the
\* network offered to the body's HTTP requests, and how many it sent.
Exchange(sid, req, resp, st, invoked, ups, http) ==
    [sid |-> sid, req |-> req, resp |-> resp, st |-> st, invoked |-> invoked,
     ups |-> ups, http |-> http]

NoUps == <<"full", "full">>

NoExchange == Exchange(0, NoReq, NoResp, "", FALSE, NoUps, 0)

SessionStates == {"UNINITIALIZED", "READY", "CLOSED"}

\* ------------------------------------------------------------------ clients

\* The Client programs: call_mcp_tool of 2_simple_demo.py, the three demos of
\* 3_mcp_client_demo.py, the three of "2.mcp_demo - CLI.py" (cli_), the three
\* sections of "1.mcp_demo - interactive copy.py" (section_), and any other MCP
\* peer a Host may be attached to.
Demos ==
    {"demo_math_server", "demo_weather_server", "demo_wikipedia_server",
     "cli_demo_math_server", "cli_demo_weather_server", "cli_demo_wikipedia_server",
     "section_math", "section_weather", "section_wikipedia"}

Scripted == {"call_mcp_tool"} \cup Demos

Clients == Scripted \cup {"peer"}

Initialize == Req("initialize", "", NoArgs)

List == Req("list", "", NoArgs)

Call(tool, args) == Req("call", tool, args)

\* The awaits of demo_math_server inside its two "async with" blocks.
demo_math_server ==
    <<Initialize, List,
      Call("add", [a |-> N(5), b |-> N(3)]),
      Call("multiply", [a |-> N(7), b |-> N(6)]),
      Call("power", [a |-> N(2), b |-> N(8)]),
      Call("sqrt", [a |-> N(16)])>>

\* latitude 37.7749 and longitude -122.4194, as whole numbers.
demo_weather_server ==
    <<Initialize, Call("get_forecast", [latitude |-> N(37), longitude |-> N(-122)])>>

demo_wikipedia_server ==
    <<Initialize, Call("get_wikipedia_summary", [title |-> S(1)])>>

\* The awaits of the demos of "2.mcp_demo - CLI.py".  Warsaw is at latitude
\* 52.2297 and longitude 21.0122.
cli_demo_math_server ==
    <<Initialize, List,
      Call("add", [a |-> N(5), b |-> N(3)]),
      Call("multiply", [a |-> N(7), b |-> N(6)]),
      Call("power", [a |-> N(2), b |-> N(8)]),
      Call("sqrt", [a |-> N(16)])>>

cli_demo_weather_server ==
    <<Initialize, List,
      Call("get_weather_by_city", [city |-> S(1)]),
      Call("get_current_conditions", [latitude |-> N(52), longitude |-> N(21)]),
      Call("get_forecast", [latitude |-> N(52), longitude |-> N(21)])>>

cli_demo_wikipedia_server ==
    <<Initialize, Call("get_wikipedia_summary", [title |-> S(1)])>>

\* The awaits of the sections of "1.mcp_demo - interactive copy.py".
section_math ==
    <<Initialize, List,
      Call("add", [a |-> N(5), b |-> N(3)]),
      Call("multiply", [a |-> N(7), b |-> N(6)]),
      Call("power", [a |-> N(2), b |-> N(8)]),
      Call("sqrt", [a |-> N(16)])>>

section_weather ==
    <<Initialize, List,
      Call("get_weather_by_city", [city |-> S(1)]),
      Call("get_current_conditions", [latitude |-> N(52), longitude |-> N(21)]),
      Call("get_forecast", [latitude |-> N(52), longitude |-> N(21)])>>

section_wikipedia ==
    <<Initialize, Call("get_wikipedia_summary", [title |-> S(1)])>>

\* call_mcp_tool with its call made a second time on the same Session.
call_mcp_tool_twice(tool_name, args) ==
    <<Initialize, Call(tool_name, args), Call(tool_name, args)>>

\* call_mcp_tool without its await session.initialize().
call_mcp_tool_uninitialized(tool_name, args) == <<Call(tool_name, args)>>

call_mcp_tool(tool_name, args) == <<Initialize, Call(tool_name, args)>>

\* The Host each demo spawns.
ServerOf(c) ==
    CASE c \in {"demo_math_server", "cli_demo_math_server", "section_math"} -> "math"
      [] c \in {"demo_weather_server", "cli_demo_weather_server", "section_weather"} ->
             "weather"
      [] c \in {"demo_wikipedia_server", "cli_demo_wikipedia_server",
                "section_wikipedia"} -> "wikipedia"

\* The awaits of each demo.
ScriptOf(c) ==
    CASE c = "demo_math_server" -> demo_math_server
      [] c = "demo_weather_server" -> demo_weather_server
      [] c = "demo_wikipedia_server" -> demo_wikipedia_server
      [] c = "cli_demo_math_server" -> cli_demo_math_server
      [] c = "cli_demo_weather_server" -> cli_demo_weather_server
      [] c = "cli_demo_wikipedia_server" -> cli_demo_wikipedia_server
      [] c = "section_math" -> section_math
      [] c = "section_weather" -> section_weather
      [] c = "section_wikipedia" -> section_wikipedia

\* How an exception raised inside the with blocks of a Client function ends:
\*   "failed"       the function's own except clause reports it;
\*   "main failed"  the function has none and main's except clause reports it;
\*   "unhandled"    nothing catches it.
Raised(c) ==
    CASE c = "cli_demo_math_server" -> "main failed"
      [] c \in {"section_math", "section_weather", "section_wikipedia"} -> "unhandled"
      [] OTHER -> "failed"

\* Argument maps that validate against a tool's signature.
WellFormed(tool) ==
    CASE tool \in {"add", "subtract", "multiply", "divide", "power"} ->
             {[a |-> N(x), b |-> N(y)] : x, y \in Num}
      [] tool = "sqrt" -> {[a |-> N(x)] : x \in Num}
      [] tool = "factorial" -> {[n |-> N(x)] : x \in Num}
      [] tool \in {"get_forecast", "get_current_conditions"} ->
             {[latitude |-> N(1), longitude |-> N(1)]}
      [] tool = "get_weather_by_city" ->
             {[city |-> S(1)], [city |-> S(1), country_code |-> S(2)]}
      [] tool = "search_wikipedia" -> {[query |-> S(1)], [query |-> S(1), limit |-> N(1)]}
      [] tool = "get_wikipedia_summary" -> {[title |-> S(1)]}
      [] tool = "get_wikipedia_content" ->
             {[title |-> S(1)], [title |-> S(1), section |-> S(2)]}
      [] tool = "get_random_wikipedia" -> {NoArgs}
      [] tool \in {"search_papers", "search", "search_news"} -> {[query |-> S(1)]}
      [] tool = "search_by_author" -> {[author |-> S(1)]}
      [] tool = "search_by_category" -> {[category |-> S(1)]}

\* Argument maps that do not: nothing at all, every parameter with a value of
\* the other type, and the first parameter alone when a second is required.
Malformed(tool) ==
    LET ps == Params(tool)
        names == {ps[i].name : i \in 1..Len(ps)}
        typeOf(n) == (CHOOSE i \in 1..Len(ps) : ps[i].name = n)
        other(n) == IF ps[typeOf(n)].type = "str" THEN N(0) ELSE S(0)
        keep(n) == IF ps[typeOf(n)].type = "str" THEN S(0) ELSE N(0)
    IN  IF ps = <<>> THEN {}
        ELSE {NoArgs, [n \in names |-> other(n)]}
             \cup IF Len(ps) > 1 /\ ps[2].required
                  THEN {[n \in {ps[1].name} |-> keep(n)]} ELSE {}

\* Names no registry of Host h holds: a name no Host registers, and a tool of
\* another Host.
UnknownNames(h) == {"nope"} \cup IF h = "math" THEN {"search"} ELSE {"add"}

\* The tool calls a Client may issue to Host h.
Calls(h) ==
    UNION {{Call(t, a) : a \in WellFormed(t) \cup Malformed(t)} : t \in Range(Registered(h))}
    \cup {Call(t, [a |-> N(1), b |-> N(1)]) : t \in UnknownNames(h)}

\* ------------------------------------------------------------------ state

VARIABLES
    env,          \* the environment the current Host was started in
    registry,     \* each Host's ToolRegistry: the tool names, in order
    client,       \* the program that runs
    host,         \* the Host of the current Session
    hostUp,       \* whether that Host's process is serving
    sessions,     \* the state of every Session opened so far, in order
    pc,           \* the Client: "idle", "open" (inside the with blocks), "awaiting"
    script,       \* the awaits a scripted Client still has to make
    sent,         \* the requests sent on the current Session
    pending,      \* the request the Client awaits the response of
    reply,        \* the exchange the Host has answered, on its way back
    last,         \* the last exchange the Client completed on the current Session
    outcome,      \* how the last Client function ended: "returned" or Raised(client)
    checkpointer, \* the MemorySaver of the agent graph: each thread's messages
    example,      \* the invocation the agent script is at
    run,          \* the run of the agent graph in progress
    graph,        \* the StateGraph that is run
    channels,     \* the values of its state keys
    tasks,        \* the tasks of the current superstep
    writes,       \* the updates of the tasks that have run in this superstep
    trace,        \* the nodes that have run, with their superstep
    superstep,    \* the number of the current superstep
    status,       \* the run: "idle", "running", "done" or "failed"
    data,         \* the upstream response get_forecast awaits
    forecasts,    \* the entries get_forecast has chosen
    embeddings_cache, \* the dictionary of the embeddings script
    api_requests, \* the inputs of the API requests issued, in order
    returned,     \* what the last call returned
    first,        \* for each text get_embedding was called with, what it returned first
    calls,        \* the calls made
    messages,     \* the conversation of the function calling workflow
    response_message, \* response.choices[0].message of Step 2
    function_response, \* the variable function_response, once it is assigned
    final_request, \* the messages the final completion request was sent with
    line,         \* where the workflow is
    session_state, \* st.session_state of the chatbot after the first run of the script
    inputs,       \* the chat inputs submitted
    test_data,    \* the categories of test_questions.json, in order
    all_cv_texts, \* the CV texts load_all_cvs returned
    all_questions, \* the questions selected
    results,      \* the list results of generate_all_ground_truths
    outcomes,     \* how self.llm.ainvoke ended for each question so far
    ground_truth_data, \* what generate_all_ground_truths returned
    stage         \* generate_all_ground_truths: "start", "loop" or "returned"

mcpVars == <<env, registry, client, host, hostUp, sessions, pc, script, sent,
              pending, reply, last, outcome>>

agentVars == <<checkpointer, example, run>>

graphVars == <<graph, channels, tasks, writes, trace, superstep, status>>

forecastVars == <<data, forecasts>>

embeddingsVars == <<embeddings_cache, api_requests, returned, first, calls>>

workflowVars == <<messages, response_message, function_response, final_request,
                   line>>

chatbotVars == <<session_state, inputs>>

truthVars == <<test_data, all_cv_texts, all_questions, results, outcomes,
                ground_truth_data, stage>>

exceptMcp == <<agentVars, graphVars, forecastVars, embeddingsVars,
                workflowVars, chatbotVars, truthVars>>

exceptAgent == <<mcpVars, graphVars, forecastVars, embeddingsVars,
                  workflowVars, chatbotVars, truthVars>>

exceptGraph == <<mcpVars, agentVars, forecastVars, embeddingsVars,
                  workflowVars, chatbotVars, truthVars>>

exceptForecast == <<mcpVars, agentVars, graphVars, embeddingsVars,
                     workflowVars, chatbotVars, truthVars>>

exceptEmbeddings == <<mcpVars, agentVars, graphVars, forecastVars,
                       workflowVars, chatbotVars, truthVars>>

exceptWorkflow == <<mcpVars, agentVars, graphVars, forecastVars,
                     embeddingsVars, chatbotVars, truthVars>>

exceptChatbot == <<mcpVars, agentVars, graphVars, forecastVars, embeddingsVars,
                    workflowVars, truthVars>>

exceptTruth == <<mcpVars, agentVars, graphVars, forecastVars, embeddingsVars,
                  workflowVars, chatbotVars>>

vars == <<env, registry, client, host, hostUp, sessions, pc, script, sent,
          pending, reply, last, outcome, checkpointer, example, run, graph,
          channels, tasks, writes, trace, superstep, status, data, forecasts,
          embeddings_cache, api_requests, returned, first, calls, messages,
          response_message, function_response, final_request, line,
          session_state, inputs, test_data, all_cv_texts, all_questions,
          results, outcomes, ground_truth_data, stage>>

\* The current Session and its state.
Sid == Len(sessions)

Cur == IF Sid = 0 THEN "NONE" ELSE sessions[Sid]

SetCur(st) == [sessions EXCEPT ![Sid] = st]

\* weather.py without its check of the key.
HostStarts_lenient(h, e) == TRUE

\* weather.py raises at import without its key; the other Hosts start.
HostStarts(h, e) == h = "weather" => e.OPENWEATHERMAP_API_KEY

\* The environments Host h can tell apart: weather.py reads one key, tavily.py
\* the other, the remaining Hosts none.
AllSet == [OPENWEATHERMAP_API_KEY |-> TRUE, TAVILY_API_KEY |-> TRUE]

EnvsOf(h) ==
    CASE h = "weather" -> {e \in Envs : e.TAVILY_API_KEY}
      [] h = "tavily" -> {e \in Envs : e.OPENWEATHERMAP_API_KEY}
      [] OTHER -> {AllSet}

\* Nothing has run yet.
Idle ==
    /\ env = AllSet
    /\ registry = [h \in Hosts |-> Registered(h)]
    /\ host = "none"
    /\ hostUp = FALSE
    /\ sessions = <<>>
    /\ pc = "idle"
    /\ script = <<>>
    /\ sent = 0
    /\ pending = NoReq
    /\ reply = NoExchange
    /\ last = NoExchange
    /\ outcome = ""
    /\ checkpointer = [t \in {"math_session_1", "math_session_2"} |-> <<>>]
    /\ example = 1
    /\ run = [thread_id |-> "", example |-> 0, rounds |-> 0, seen |-> {}]
    /\ graph = "none"
    /\ channels = <<>>
    /\ tasks = <<>>
    /\ writes = <<>>
    /\ trace = <<>>
    /\ superstep = 0
    /\ status = "idle"
    /\ data = [fetched |-> FALSE, list |-> <<>>]
    /\ forecasts = <<>>
    /\ embeddings_cache = <<>>
    /\ api_requests = <<>>
    /\ returned = [fn |-> "", texts |-> <<>>, embeddings |-> <<>>]
    /\ first = <<>>
    /\ calls = 0
    /\ messages = <<>>
    /\ response_message = [function_call |-> [name |-> "None", arguments |-> <<>>]]
    /\ function_response = [assigned |-> FALSE]
    /\ final_request = <<>>
    /\ line = "step1"
    /\ session_state = [openai_model |-> "gpt-4o-mini", messages |-> <<[role |-> "system", content |-> "You are a polite academic teacher"]>>]
    /\ inputs = 0
    /\ test_data = <<>>
    /\ all_cv_texts = <<>>
    /\ all_questions = <<>>
    /\ results = <<>>
    /\ outcomes = <<>>
    /\ ground_truth_data = [metadata |-> [num_questions |-> 0, num_cvs |-> 0, total_successful |-> 0, total_errors |-> 0], ground_truth_answers |-> <<>>]
    /\ stage = "start"

Init == Idle /\ client \in Clients

\* ------------------------------------------------------------------ client steps
\* Open keeping the Session object of the previous connection.
Open_reusing(h, sc) ==
    /\ Sid < MaxSessions
    /\ \/ pc = "idle"
       \/ client = "peer" /\ pc = "open" /\ Cur = "CLOSED"
    /\ host' = h
    /\ env' \in EnvsOf(h)
    /\ \E spawned \in BOOLEAN : hostUp' = (spawned /\ HostStarts(h, env'))
    /\ sessions' = IF Sid = 0 THEN Append(sessions, "UNINITIALIZED")
                   ELSE SetCur("UNINITIALIZED")
    /\ pc' = "open"
    /\ script' = sc
    /\ sent' = 0
    /\ outcome' = ""
    /\ last' = NoExchange
    /\ UNCHANGED exceptMcp
    /\ UNCHANGED <<registry, client, pending, reply>>

\* stdio_client spawns Host h and ClientSession opens a Session on its pipes.
\* sc is what the caller will await inside the with blocks.  A Host that cannot
\* be spawned, or that ends at import, leaves pipes that are at end of file.
Open(h, sc) ==
    /\ Sid < MaxSessions
    /\ \/ pc = "idle"
       \/ client = "peer" /\ pc = "open" /\ Cur = "CLOSED"
    /\ host' = h
    /\ env' \in EnvsOf(h)
    /\ \E spawned \in BOOLEAN : hostUp' = (spawned /\ HostStarts(h, env'))
    /\ sessions' = Append(sessions, "UNINITIALIZED")
    /\ pc' = "open"
    /\ script' = sc
    /\ sent' = 0
    /\ outcome' = ""
    /\ last' = NoExchange
    /\ UNCHANGED exceptMcp
    /\ UNCHANGED <<registry, client, pending, reply>>

\* A demo is entered, with its fixed Host and awaits.
ConnectDemo ==
    /\ client \in Demos
    /\ Open(ServerOf(client), ScriptOf(client))

\* call_mcp_tool is entered, with its three arguments.
ConnectTool ==
    /\ client = "call_mcp_tool"
    /\ \E server_path \in Hosts : \E c \in Calls(server_path) :
           Open(server_path, call_mcp_tool(c.tool, c.args))

\* A peer attaches to any Host.
ConnectPeer ==
    /\ client = "peer"
    /\ \E h \in Hosts : Open(h, <<>>)

\* A Client function is entered.
Connect == ConnectDemo \/ ConnectTool \/ ConnectPeer

\* Send without the await: the Client goes on while the request is out.
Send_pipelined(r) ==
    /\ pc = "open"
    /\ pending' = Wire(sent, r)
    /\ sent' = sent + 1
    /\ pc' = "open"
    /\ UNCHANGED exceptMcp
    /\ UNCHANGED <<env, registry, client, host, hostUp, sessions, script, reply,
                   last, outcome>>

\* The Client sends request r and suspends until its response arrives.
Send(r) ==
    /\ pc = "open"
    /\ pending' = Wire(sent, r)
    /\ sent' = sent + 1
    /\ pc' = "awaiting"
    /\ UNCHANGED exceptMcp
    /\ UNCHANGED <<env, registry, client, host, hostUp, sessions, script, reply,
                   last, outcome>>

\* session.initialize(), session.list_tools(), session.call_tool(...): the next
\* await of a scripted Client.
Await ==
    /\ client \in Scripted
    /\ script # <<>>
    /\ Send(Head(script))

\* Any request of a peer, in any state of its Session.
PeerSend ==
    /\ client = "peer"
    /\ pc = "open"
    /\ sent < MaxRequests
    /\ \E r \in {Initialize, List} \cup Calls(host) :
           /\ r.kind = "initialize" => Cur # "READY"
           /\ Send(r)

\* The Client takes the exchange ex as the answer to its pending request.  A
\* peer goes on.  In a scripted Client an error response is raised as an
\* exception, which leaves the with blocks (closing the Session) and is caught
\* by the function's except clause.
Complete(ex) ==
    /\ last' = ex
    /\ pending' = NoReq
    /\ reply' = NoExchange
    /\ IF client = "peer"
       THEN /\ pc' = "open"
            /\ UNCHANGED <<sessions, hostUp, script, outcome>>
       ELSE IF ex.resp.kind \in {"rpc_error", "session_error"}
       THEN /\ pc' = "idle"
            /\ sessions' = SetCur("CLOSED")
            /\ hostUp' = FALSE
            /\ script' = <<>>
            /\ outcome' = Raised(client)
       ELSE /\ pc' = "open"
            /\ script' = Tail(script)
            /\ UNCHANGED <<sessions, hostUp, outcome>>
    /\ UNCHANGED exceptMcp
    /\ UNCHANGED <<env, registry, client, host, sent>>

\* The response arrives.
Receive ==
    /\ pc = "awaiting"
    /\ reply.req.kind # "none"
    /\ Complete(reply)

\* A request on a Session that is CLOSED fails in the Client with a
\* Session-level error.
FailClosed ==
    /\ pc = "awaiting"
    /\ reply.req.kind = "none"
    /\ Cur = "CLOSED"
    /\ Complete(Exchange(Sid, pending,
                         Resp(pending.id, "session_error", <<>>, NoResult, "TransportError"),
                         "CLOSED", FALSE, NoUps, 0))

\* A function that returns after its last await with its Session and its
\* Host process left as they are.
Close_forgetful ==
    /\ pc = "open"
    /\ IF client = "peer" THEN Cur # "CLOSED" ELSE script = <<>>
    /\ IF client = "peer"
       THEN /\ sessions' = SetCur("CLOSED")
            /\ hostUp' = FALSE
            /\ UNCHANGED <<pc, outcome>>
       ELSE /\ pc' = "idle"
            /\ outcome' = "returned"
            /\ UNCHANGED <<sessions, hostUp>>
    /\ UNCHANGED exceptMcp
    /\ UNCHANGED <<env, registry, client, host, script, sent, pending, reply, last>>

\* The with blocks are left: the Session is closed and the Host process ends.
\* A scripted Client leaves them after its last await and returns; when the
\* transport has broken since, leaving them may raise instead.
Close ==
    /\ pc = "open"
    /\ IF client = "peer" THEN Cur # "CLOSED" ELSE script = <<>>
    /\ sessions' = SetCur("CLOSED")
    /\ hostUp' = FALSE
    /\ IF client = "peer"
       THEN UNCHANGED <<pc, outcome>>
       ELSE /\ pc' = "idle"
            /\ outcome' \in IF Cur = "CLOSED" THEN {"returned", Raised(client)}
                            ELSE {"returned"}
    /\ UNCHANGED exceptMcp
    /\ UNCHANGED <<env, registry, client, host, script, sent, pending, reply, last>>

\* ------------------------------------------------------------------ host steps

\* Any answer but a rejection taken for a completed handshake.
SessionAfter_any(st, ex) ==
    IF ex.resp.kind = "session_error" THEN "CLOSED" ELSE "READY"

\* An error result taken for a failure of the Session.
SessionAfter_poisoned(st, ex) ==
    IF ex.resp.kind = "initialized" THEN "READY"
    ELSE IF ex.resp.kind = "session_error" THEN "CLOSED"
    ELSE IF ex.resp.kind = "result" /\ ex.resp.result.is_error THEN "CLOSED"
    ELSE st

\* The state of a Session after the Host has answered a request in state st
\* with exchange ex: an accepted initialize makes the Session READY, a rejected
\* one fails it closed, and no other answer changes it.
SessionAfter(st, ex) ==
    IF ex.resp.kind = "initialized" THEN "READY"
    ELSE IF ex.resp.kind = "session_error" THEN "CLOSED"
    ELSE st

\* The Host's answer to request req on Session sid in state st:
\*   initialize: the capabilities, or the rejection of the Client's;
\*   list or call before the handshake: a handshake-required error;
\*   list: the descriptors of the registry;
\*   call: dispatch.
Handle(sid, st, reg, req, accept, ups, e) ==
    IF req.kind = "initialize"
    THEN IF accept
         THEN Exchange(sid, req, Resp(req.id, "initialized", <<>>, NoResult, ""),
                       st, FALSE, NoUps, 0)
         ELSE Exchange(sid, req,
                       Resp(req.id, "session_error", <<>>, NoResult, "HandshakeRejected"),
                       st, FALSE, NoUps, 0)
    ELSE IF st = "UNINITIALIZED"
    THEN Exchange(sid, req, Resp(req.id, "rpc_error", <<>>, NoResult, "handshake required"),
                  st, FALSE, NoUps, 0)
    ELSE IF req.kind = "list"
    THEN Exchange(sid, req, Resp(req.id, "tools", ListTools(reg), NoResult, ""),
                  st, FALSE, NoUps, 0)
    ELSE LET d == Dispatch(reg, req.tool, req.args, ups, e)
         IN  Exchange(sid, req, Resp(req.id, "result", <<>>, d.result, ""),
                      st, d.invoked, ups, d.http)

\* A tool body that registers itself again when it runs.
Registers_self(tool) == <<tool>>

\* The tools a tool body registers when it runs: none.  Every registration
\* is a decorator that runs when the server script is imported.
Registers(tool) == <<>>

\* The Host handles the pending request and answers it; the registry grows
\* by what the tool body registered.
HostServe ==
    /\ pending.kind # "none"
    /\ reply.req.kind = "none"
    /\ hostUp
    /\ Cur \in {"UNINITIALIZED", "READY"}
    /\ pending.kind = "initialize" => Cur = "UNINITIALIZED"
    /\ \E accept \in IF pending.kind = "initialize" THEN BOOLEAN ELSE {TRUE} :
       \E ups \in IF pending.kind = "call" /\ Cur = "READY"
                  THEN Outcomes(pending.tool, env) ELSE {NoUps} :
           LET ex == Handle(Sid, Cur, registry[host], pending, accept, ups, env)
           IN  /\ reply' = ex
               /\ registry' = [registry EXCEPT ![host] =
                                   IF ex.invoked THEN @ \o Registers(pending.tool)
                                   ELSE @]
               /\ sessions' = SetCur(SessionAfter(Cur, ex))
               /\ hostUp' = (SessionAfter(Cur, ex) # "CLOSED")
    /\ UNCHANGED exceptMcp
    /\ UNCHANGED <<env, client, host, pc, script, sent, pending, last, outcome>>

\* The Host process is not there (it never started, or it ended): its pipes
\* are at end of file and the Session is closed.
HostExit ==
    /\ Cur \in {"UNINITIALIZED", "READY"}
    /\ ~hostUp
    /\ sessions' = SetCur("CLOSED")
    /\ UNCHANGED exceptMcp
    /\ UNCHANGED <<env, registry, client, host, hostUp, pc, script, sent, pending,
                   reply, last, outcome>>

\* The transport breaks: the Session is closed and what was on its way is lost.
TransportError ==
    /\ Cur \in {"UNINITIALIZED", "READY"}
    /\ hostUp
    /\ sessions' = SetCur("CLOSED")
    /\ hostUp' = FALSE
    /\ reply' = NoExchange
    /\ UNCHANGED exceptMcp
    /\ UNCHANGED <<env, registry, client, host, pc, script, sent, pending, last,
                   outcome>>

Next ==
    \/ Connect
    \/ Await
    \/ PeerSend
    \/ Receive
    \/ FailClosed
    \/ Close
    \/ HostServe
    \/ HostExit
    \/ TransportError

Spec == Init /\ [][Next]_vars

\* The Client's event loop resumes a suspended await once its response is
\* there or its stream is closed.
FairSpec ==
    /\ Spec
    /\ WF_vars(Receive)
    /\ WF_vars(FailClosed)

\* The client scripts of the repository alone.  Their awaits are resumed by
\* the event loop, and a Host process that runs answers what it has read: the
\* HTTP requests of the tools have timeouts.
DemoInit == Init /\ client \in Scripted

DemoNext ==
    \/ ConnectDemo
    \/ ConnectTool
    \/ Await
    \/ Receive
    \/ FailClosed
    \/ Close
    \/ HostServe
    \/ HostExit
    \/ TransportError

DemoSpec ==
    /\ DemoInit
    /\ [][DemoNext]_vars
    /\ WF_vars(Await)
    /\ WF_vars(Receive)
    /\ WF_vars(FailClosed)
    /\ WF_vars(Close)
    /\ WF_vars(HostServe)
    /\ WF_vars(HostExit)

\* ------------------------------------------------------------------ ReAct agent
\* 03_langgraph_react_agent.py: one agent graph with a MemorySaver, invoked
\* seven times by a script, each time under a configuration naming a thread.

\* The tools of the agent.
agent_multiply(a, b) == a * b

agent_add(a, b) == a + b

agent_power(a, b) == a ^ b

get_word_length(word) == Len(word)

\* tools = [multiply, add, power, get_word_length]
agent_tools == <<"multiply", "add", "power", "get_word_length">>

\* The tool node runs the tool an AI message calls.
RunTool(name, args) ==
    CASE name = "multiply" -> agent_multiply(args[1], args[2])
      [] name = "add" -> agent_add(args[1], args[2])
      [] name = "power" -> agent_power(args[1], args[2])
      [] name = "get_word_length" -> get_word_length(args[1])

session_id == "math_session_1"

new_session_id == "math_session_2"

ThreadIds == {session_id, new_session_id}

config == [thread_id |-> session_id]

new_config == [thread_id |-> new_session_id]

\* The invocations of the script, in order: the query and the configuration
\* each passes to agent_graph.invoke.
Examples ==
    << [query |-> "query1", config |-> config],
       [query |-> "query2", config |-> config],
       [query |-> "query3", config |-> config],
       [query |-> "query4", config |-> config],
       [query |-> "query5", config |-> config],
       [query |-> "complex_query", config |-> new_config],
       [query |-> "query7", config |-> new_config] >>

ToolCall(name, args) == [name |-> name, args |-> args]

NoCall == ToolCall("", <<>>)

\* The tool calls the model may make for a query: those the query asks for.
Asked(query) ==
    CASE query = "query1" -> {ToolCall("multiply", <<8, 7>>)}
      [] query = "query2" -> {ToolCall("power", <<5, 3>>), ToolCall("add", <<125, 20>>)}
      [] query = "query3" -> {ToolCall("get_word_length", <<"LangGraph">>),
                              ToolCall("multiply", <<9, 4>>)}
      [] query = "complex_query" -> {ToolCall("get_word_length", <<"Python">>),
                                     ToolCall("power", <<6, 2>>),
                                     ToolCall("add", <<36, 15>>)}
      [] OTHER -> {}

\* The messages of a thread.  example is the invocation that added the
\* message.
HumanMessage(n, query) ==
    [type |-> "human", example |-> n, content |-> Txt(query, ""), tool_call |-> NoCall]

AIMessage(n, call) ==
    [type |-> "ai", example |-> n, content |-> Txt("", ""), tool_call |-> call]

ToolMessage(n, call) ==
    [type |-> "tool", example |-> n, content |-> IntTxt(RunTool(call.name, call.args)),
     tool_call |-> call]

NoRun == [thread_id |-> "", example |-> 0, rounds |-> 0, seen |-> {}]

\* agent_graph.get_state(cfg): the messages of the thread cfg names.
get_state(cfg) == checkpointer[cfg.thread_id]

\* The messages the model is called with.
History == checkpointer[run.thread_id]

\* agent_graph.invoke({'messages': [('user', query)]}, cfg): the run starts
\* from the checkpoint of the thread cfg names, with the query added to it.
Invoke ==
    /\ run = NoRun
    /\ example <= Len(Examples)
    /\ LET e == Examples[example]
           t == e.config.thread_id
       IN  /\ run' = [thread_id |-> t, example |-> example, rounds |-> 0,
                      seen |-> {m.example : m \in Range(checkpointer[t])}]
           /\ checkpointer' = [checkpointer EXCEPT
                                   ![t] = Append(@, HumanMessage(example, e.query))]
    /\ UNCHANGED example
    /\ UNCHANGED exceptAgent

\* The agent node: the model answers with a tool call.
AgentCalls ==
    /\ run # NoRun
    /\ History[Len(History)].type \in {"human", "tool"}
    /\ run.rounds < MaxRounds
    /\ \E call \in Asked(Examples[run.example].query) :
           /\ call.name \in Range(agent_tools)
           /\ checkpointer' = [checkpointer EXCEPT
                                   ![run.thread_id] = Append(@, AIMessage(run.example, call))]
    /\ run' = [run EXCEPT !.rounds = @ + 1]
    /\ UNCHANGED example
    /\ UNCHANGED exceptAgent

\* The tools node: the tool is run and its result added.
ToolNode ==
    /\ run # NoRun
    /\ History[Len(History)].type = "ai"
    /\ checkpointer' = [checkpointer EXCEPT
                            ![run.thread_id] =
                                Append(@, ToolMessage(run.example,
                                                      History[Len(History)].tool_call))]
    /\ UNCHANGED <<example, run>>
    /\ UNCHANGED exceptAgent

\* The agent node: the model answers without a tool call, the run ends and
\* invoke returns; the script prints the answer and goes on.
AgentAnswers ==
    /\ run # NoRun
    /\ History[Len(History)].type \in {"human", "tool"}
    /\ checkpointer' = [checkpointer EXCEPT
                            ![run.thread_id] = Append(@, AIMessage(run.example, NoCall))]
    /\ run' = NoRun
    /\ example' = example + 1
    /\ UNCHANGED exceptAgent

ReactInit == Idle /\ client = "03_langgraph_react_agent"

ReactNext ==
    \/ Invoke
    \/ AgentCalls
    \/ ToolNode
    \/ AgentAnswers

\* The script alone.
ReactSpec == ReactInit /\ [][ReactNext]_vars

\* ------------------------------------------------------------------ graphs
\* The StateGraphs of "4. Graphs" and of 01_graph_based_agent.py, run by the
\* graph engine in supersteps: the tasks of a superstep read the state as it
\* was when the superstep began, in any order, their updates are applied
\* through the reducers of the state when all have finished, and the nodes
\* their edges lead to are the tasks of the next superstep.

\* A state key without reducer keeps the last value written; an annotated key
\* combines the old value and the update.
LastValue(default) == [reducer |-> "last", default |-> default]

Annotated(reducer) == [reducer |-> reducer, default |-> <<>>]

\* SimpleState without the annotation of its key.
SimpleState_plain == [state |-> LastValue(<<>>)]

\* class SimpleState: state: Annotated[list, operator.add]
SimpleState == [state |-> Annotated("operator.add")]

\* class State: graph_state: str
State == [graph_state |-> LastValue(<<>>)]

\* class OverallState
OverallState ==
    [topic |-> LastValue(""), subjects |-> LastValue(<<>>),
     jokes |-> Annotated("operator.add"), best_selected_joke |-> LastValue("")]

\* MessagesState: messages: Annotated[list[AnyMessage], add_messages]
MessagesState == [messages |-> Annotated("add_messages")]

Graphs == {"simple_graph", "graph", "app", "tool_executor_graph"}

\* StateGraph(...): the state schema of each graph.
Schema(g) ==
    CASE g = "simple_graph" -> SimpleState
      [] g = "graph" -> State
      [] g = "app" -> OverallState
      [] g = "tool_executor_graph" -> MessagesState

\* add_node: the nodes of each graph, in the order they were added.
Nodes(g) ==
    CASE g = "simple_graph" -> <<"a", "b", "c", "d">>
      [] g = "graph" -> <<"Node_1", "Node_2", "Node_3">>
      [] g = "app" -> <<"generate_topics", "generate_joke", "best_joke">>
      [] g = "tool_executor_graph" -> <<"llm_with_tools", "tools">>

\* add_edge: the fixed edges of each graph.
Edges(g) ==
    CASE g = "simple_graph" ->
             {<<"START", "a">>, <<"a", "b">>, <<"a", "c">>, <<"b", "d">>, <<"c", "d">>,
              <<"d", "END">>}
      [] g = "graph" ->
             {<<"START", "Node_1">>, <<"Node_2", "END">>, <<"Node_3", "END">>}
      [] g = "app" ->
             {<<"START", "generate_topics">>, <<"generate_joke", "best_joke">>,
              <<"best_joke", "END">>}
      [] g = "tool_executor_graph" ->
             {<<"START", "llm_with_tools">>, <<"tools", "llm_with_tools">>}

\* The input of each graph.invoke of the scripts.
Input(g) ==
    CASE g = "simple_graph" -> [state |-> <<>>]
      [] g = "graph" -> [graph_state |-> <<"Hello, I am Tom.">>]
      [] g = "app" -> [topic |-> "future of banking"]
      [] g = "tool_executor_graph" -> [messages |-> <<HumanMessage(0, "question")>>]

\* A task of a superstep: a node that reads the state, or a node sent a
\* state of its own.
Pull(node) == [node |-> node, send |-> FALSE, arg |-> <<>>, ran |-> FALSE]

SendTo(node, arg) == [node |-> node, send |-> TRUE, arg |-> arg, ran |-> FALSE]

\* What a node function did: it returned an update of the state or raised.
Update(u) == [raised |-> FALSE, update |-> u]

Raises(error) == [raised |-> TRUE, update |-> [error |-> error]]

\* The reducer of a state key combines its value with an update.
Reduce(reducer, old, new) ==
    CASE reducer = "operator.add" -> old \o new
      [] reducer = "add_messages" -> old \o new
      [] reducer = "last" -> new

\* The state after update u.
Apply(g, st, u) ==
    [k \in DOMAIN st |->
        IF k \in DOMAIN u THEN Reduce(Schema(g)[k].reducer, st[k], u[k]) ELSE st[k]]

\* The state after the updates of ws, in order.
RECURSIVE ApplyAll(_, _, _)
ApplyAll(g, st, ws) ==
    IF ws = <<>> THEN st ELSE ApplyAll(g, Apply(g, st, Head(ws).update), Tail(ws))

\* Two tasks of one superstep wrote a key that has no reducer.
Conflict(g, ws) ==
    \E i, j \in 1..Len(ws) :
        /\ i < j
        /\ \E k \in DOMAIN ws[i].update \cap DOMAIN ws[j].update :
               Schema(g)[k].reducer = "last"

\* ---- 2_parallel_processes.py

\* ReturnNodeValue(node_secret).__call__(state)
ReturnNodeValue(node_secret, state) == Update([state |-> <<node_secret>>])

\* ---- 1_simple graph.py

node_1(state) == Update([graph_state |-> state.graph_state \o <<" I am">>])

node_2(state) == Update([graph_state |-> state.graph_state \o <<" happy :)">>])

node_3(state) == Update([graph_state |-> state.graph_state \o <<" sad :(">>])

\* random.random(), in tenths.
RandomNumbers == {0, 4, 5, 9}

\* mood_decision that takes both ways.
mood_decision_both(random_number) == <<Pull("Node_2"), Pull("Node_3")>>

\* mood_decision(state), with the number random.random() gave.
mood_decision(random_number) ==
    IF random_number < 5 THEN <<Pull("Node_2")>> ELSE <<Pull("Node_3")>>

\* ---- 3_map_reduce.py

\* The subjects the model may answer generate_topics with.
SubjectNames == {"s1", "s2"}

SubjectLists == UNION {[1..n -> SubjectNames] : n \in 0..MaxSubjects}

\* The jokes the model may answer generate_joke with.
Jokes == {"j1", "j2"}

\* The ids the model may answer best_joke with.
Ids == (0 - MaxSubjects - 1)..(MaxSubjects + 1)

generate_topics(state, subjects) == Update([subjects |-> subjects])

\* continue_to_jokes that sends one task for all subjects.
continue_to_jokes_once(state) ==
    IF state.subjects = <<>> THEN <<>>
    ELSE <<SendTo("generate_joke", [subject |-> state.subjects[1]])>>

continue_to_jokes(state) ==
    [i \in 1..Len(state.subjects) |->
        SendTo("generate_joke", [subject |-> state.subjects[i]])]

generate_joke(state, joke) == Update([jokes |-> <<joke>>])

\* list[id] of Python: a negative id counts from the end, and an id outside
\* -len..len-1 raises IndexError.
InRange(list, id) == 0 - Len(list) <= id /\ id < Len(list)

Item(list, id) == IF id >= 0 THEN list[id + 1] ELSE list[Len(list) + id + 1]

best_joke(state, id) ==
    IF InRange(state.jokes, id)
    THEN Update([best_selected_joke |-> Item(state.jokes, id)])
    ELSE Raises("IndexError")

\* ---- 01_graph_based_agent.py

executor_multiply(a, b) == Return(IntTxt(a * b))

executor_add(a, b) == Return(IntTxt(a + b))

executor_divide(a, b) ==
    IF b = 0 THEN Raise("Cannot divide by zero") ELSE Return(FloatTxt(a, b))

\* The tool calls the model may answer with.
ExecutorCalls ==
    {ToolCall("multiply", <<15, 8>>), ToolCall("add", <<25, 10>>),
     ToolCall("divide", <<35, 5>>), ToolCall("divide", <<1, 0>>)}

\* llm_with_tools(state): the response of the model, response, is added.
llm_with_tools(state, response) ==
    Update([messages |-> <<AIMessage(Len(state.messages), response)>>])

\* tools_condition that ends the run whatever the last message is.
tools_condition_ending(state) == <<>>

\* tools_condition(state): to the tools when the last message has tool calls.
tools_condition(state) ==
    IF state.messages[Len(state.messages)].tool_call # NoCall
    THEN <<Pull("tools")>> ELSE <<>>

\* ToolNode(tools): the tool the last message calls is run and its result
\* added as a tool message.  When the tool raises, the node adds the error
\* as a tool message if it handles tool errors, and raises otherwise.
ToolNodeRun(state, handles) ==
    LET call == state.messages[Len(state.messages)].tool_call
        r == CASE call.name = "multiply" -> executor_multiply(call.args[1], call.args[2])
               [] call.name = "add" -> executor_add(call.args[1], call.args[2])
               [] call.name = "divide" -> executor_divide(call.args[1], call.args[2])
        msg == [type |-> "tool", example |-> Len(state.messages), content |-> r.text,
                tool_call |-> call]
    IN  IF r.raised /\ ~handles THEN Raises("ValueError")
        ELSE Update([messages |-> <<msg>>])

\* ---- the engine

\* What the model, or chance, may put into a run of a node.
Choices(g, node, state) ==
    CASE g = "app" /\ node = "generate_topics" -> SubjectLists
      [] g = "app" /\ node = "generate_joke" -> Jokes
      [] g = "app" /\ node = "best_joke" -> Ids
      [] g = "tool_executor_graph" /\ node = "llm_with_tools" ->
             IF Len(state.messages) < 2 * MaxTurns THEN ExecutorCalls \cup {NoCall}
             ELSE {NoCall}
      [] g = "tool_executor_graph" /\ node = "tools" -> BOOLEAN
      [] OTHER -> {0}

\* The node function of a task, applied to the state it reads.
NodeReturn(g, node, state, c) ==
    CASE g = "simple_graph" /\ node = "a" -> ReturnNodeValue("I am A", state)
      [] g = "simple_graph" /\ node = "b" -> ReturnNodeValue("I am B", state)
      [] g = "simple_graph" /\ node = "c" -> ReturnNodeValue("I am C", state)
      [] g = "simple_graph" /\ node = "d" -> ReturnNodeValue("I am D", state)
      [] g = "graph" /\ node = "Node_1" -> node_1(state)
      [] g = "graph" /\ node = "Node_2" -> node_2(state)
      [] g = "graph" /\ node = "Node_3" -> node_3(state)
      [] g = "app" /\ node = "generate_topics" -> generate_topics(state, c)
      [] g = "app" /\ node = "generate_joke" -> generate_joke(state, c)
      [] g = "app" /\ node = "best_joke" -> best_joke(state, c)
      [] g = "tool_executor_graph" /\ node = "llm_with_tools" -> llm_with_tools(state, c)
      [] g = "tool_executor_graph" /\ node = "tools" -> ToolNodeRun(state, c)

\* What chance may put into the conditional edge of a node.
BranchChoices(g, node) ==
    IF g = "graph" /\ node = "Node_1" THEN RandomNumbers ELSE {0}

\* add_conditional_edges: the tasks the conditional edge of a node asks for,
\* given the state with the update of the node.
Branch(g, node, state, r) ==
    CASE g = "graph" /\ node = "Node_1" -> mood_decision(r)
      [] g = "app" /\ node = "generate_topics" -> continue_to_jokes(state)
      [] g = "tool_executor_graph" /\ node = "llm_with_tools" -> tools_condition(state)
      [] OTHER -> <<>>

\* The nodes the fixed edges lead to from the nodes of ns.
Targets(g, ns) == {e[2] : e \in {d \in Edges(g) : d[1] \in ns}} \ {"END"}

\* The tasks of ts that read the state, once per node, in the order of the
\* nodes of the graph, and then those sent a state of their own.
Planned(g, pulls, sends) ==
    LET names == SelectSeq(Nodes(g), LAMBDA n : n \in pulls)
    IN  [i \in 1..Len(names) |-> Pull(names[i])] \o sends

\* The tasks the writes of a superstep ask for.
RECURSIVE Routed(_)
Routed(ws) == IF ws = <<>> THEN <<>> ELSE Head(ws).route \o Routed(Tail(ws))

NextTasks(g, ws) ==
    LET routed == Routed(ws)
        ran == {ws[i].node : i \in 1..Len(ws)}
        pulls == Targets(g, ran) \cup
                 {routed[i].node : i \in {j \in 1..Len(routed) : ~routed[j].send}}
    IN  Planned(g, pulls, SelectSeq(routed, LAMBDA t : t.send))

\* graph.invoke(input): the input is written to the state and the nodes
\* START leads to are the tasks of the first superstep.
GraphInvoke ==
    /\ status = "idle"
    /\ \E g \in Graphs :
           /\ graph' = g
           /\ channels' = Apply(g, [k \in DOMAIN Schema(g) |-> Schema(g)[k].default],
                                Input(g))
           /\ tasks' = Planned(g, Targets(g, {"START"}), <<>>)
    /\ writes' = <<>>
    /\ trace' = <<>>
    /\ superstep' = 1
    /\ status' = "running"
    /\ UNCHANGED exceptGraph

\* A task of the superstep runs: its node function, and then the conditional
\* edge of the node.  An exception in the node ends the run.
RunTask ==
    /\ status = "running"
    /\ \E i \in 1..Len(tasks) :
           /\ ~tasks[i].ran
           /\ LET node == tasks[i].node
                  state == IF tasks[i].send THEN tasks[i].arg ELSE channels
              IN  \E c \in Choices(graph, node, state) :
                  \E r \in BranchChoices(graph, node) :
                      LET out == NodeReturn(graph, node, state, c)
                      IN  IF out.raised
                          THEN /\ status' = "failed"
                               /\ trace' = Append(trace, [node |-> node, step |-> superstep,
                                                          ok |-> FALSE])
                               /\ UNCHANGED <<tasks, writes>>
                          ELSE /\ writes' =
                                      Append(writes,
                                             [node |-> node, update |-> out.update,
                                              route |-> Branch(graph, node,
                                                               Apply(graph, channels, out.update),
                                                               r)])
                               /\ tasks' = [tasks EXCEPT ![i].ran = TRUE]
                               /\ trace' = Append(trace, [node |-> node, step |-> superstep,
                                                          ok |-> TRUE])
                               /\ UNCHANGED status
    /\ UNCHANGED <<graph, channels, superstep>>
    /\ UNCHANGED exceptGraph

\* All tasks of the superstep have run: their updates are applied and the
\* next superstep is planned.  Without tasks the run is over.
EndStep ==
    /\ status = "running"
    /\ \A i \in 1..Len(tasks) : tasks[i].ran
    /\ IF Conflict(graph, writes)
       THEN /\ status' = "failed"
            /\ UNCHANGED <<channels, tasks>>
       ELSE /\ channels' = ApplyAll(graph, channels, writes)
            /\ tasks' = NextTasks(graph, writes)
            /\ status' = IF NextTasks(graph, writes) = <<>> THEN "done" ELSE "running"
    /\ writes' = <<>>
    /\ superstep' = superstep + 1
    /\ UNCHANGED <<graph, trace>>
    /\ UNCHANGED exceptGraph

GraphInit == Idle /\ client = "graphs"

GraphNext ==
    \/ GraphInvoke
    \/ RunTask
    \/ EndStep

\* The graph scripts alone.  A task that can run does, and a superstep whose
\* tasks have all run ends.
GraphSpec ==
    /\ GraphInit
    /\ [][GraphNext]_vars
    /\ WF_vars(RunTask)
    /\ WF_vars(EndStep)

\* ------------------------------------------------------------------ get_forecast
\* weather.py, get_forecast: the choice of one entry per day from the list
\* of the upstream response.

\* An entry of data["list"]: dt_txt is "<date> <time>", split at the blank.
Entry(date, time) == [dt_txt |-> <<date, time>>]

Times == <<"09:00:00", "12:00:00">>

\* The entries the upstream can send, in the order of time: the days
\* 1..MaxDays at the hours of Times.
Slots == [i \in 1..(MaxDays * Len(Times)) |->
             Entry(((i - 1) \div Len(Times)) + 1, Times[((i - 1) % Len(Times)) + 1])]

\* The lists the upstream answers with: any of the entries, in the order of
\* time.
ListOf(chosen) ==
    LET idx == SelectSeq([i \in 1..Len(Slots) |-> i], LAMBDA i : i \in chosen)
    IN  [k \in 1..Len(idx) |-> Slots[idx[k]]]

\* for item in data["list"]: ... with the entries chosen so far in forecasts
\* and their dates in seen_dates.
RECURSIVE ForecastLoop(_, _, _)
ForecastLoop(list, seen_dates, chosen) ==
    IF list = <<>> THEN chosen
    ELSE LET item == Head(list)
             date == item.dt_txt[1]
             time == item.dt_txt[2]
         IN  IF date \notin seen_dates
                    /\ (time = "12:00:00" \/ Cardinality(seen_dates) < 5)
             THEN IF Cardinality(seen_dates \cup {date}) >= 5
                  THEN Append(chosen, item)
                  ELSE ForecastLoop(Tail(list), seen_dates \cup {date},
                                    Append(chosen, item))
             ELSE ForecastLoop(Tail(list), seen_dates, chosen)

\* data = await make_weather_request(url, params): a response with a list.
FetchForecast ==
    /\ ~data.fetched
    /\ \E some \in SUBSET (1..Len(Slots)) :
           data' = [fetched |-> TRUE, list |-> ListOf(some)]
    /\ UNCHANGED forecasts
    /\ UNCHANGED exceptForecast

\* The rest of get_forecast: the entries of the text it returns.
FormatForecast ==
    /\ data.fetched
    /\ forecasts' = ForecastLoop(data.list, {}, <<>>)
    /\ UNCHANGED data
    /\ UNCHANGED exceptForecast

ForecastInit == Idle /\ client = "get_forecast"

ForecastNext == FetchForecast \/ FormatForecast

ForecastSpec == ForecastInit /\ [][ForecastNext]_vars

\* ------------------------------------------------------------------ embeddings
\* 1. embeddings_basics.py: get_embedding and get_embeddings_batch over the
\* dictionary embeddings_cache.  A text is the sequence of its characters.

Chars == {"c", "\n"}

\* The texts the script may ask an embedding of.
Texts == UNION {[1..n -> Chars] : n \in 1..MaxChars}

\* text.replace("\n", " ")
Replace(text) == [i \in 1..Len(text) |-> IF text[i] = "\n" THEN " " ELSE text[i]]

\* client.embeddings.create(input=[text], ...).data[0].embedding: the
\* embedding the API gives for a text.
Embedding(text) == [of |-> text]

\* cache[key] = value
Store(cache, key, value) ==
    [k \in DOMAIN cache \cup {key} |-> IF k = key THEN value ELSE cache[k]]

\* for i, text in enumerate(uncached_texts): embeddings_cache[text] = ...
RECURSIVE StoreAll(_, _)
StoreAll(cache, uncached_texts) ==
    IF uncached_texts = <<>> THEN cache
    ELSE StoreAll(Store(cache, Head(uncached_texts),
                        Embedding(Replace(Head(uncached_texts)))),
                  Tail(uncached_texts))

\* get_embedding(text)
get_embedding(text) ==
    /\ calls < MaxCalls
    /\ calls' = calls + 1
    /\ IF text \in DOMAIN embeddings_cache
       THEN /\ returned' = [fn |-> "get_embedding", texts |-> <<text>>,
                            embeddings |-> <<embeddings_cache[text]>>]
            /\ UNCHANGED <<embeddings_cache, api_requests>>
       ELSE LET clean == Replace(text)
                embedding == Embedding(clean)
            IN  /\ api_requests' = Append(api_requests, <<clean>>)
                /\ embeddings_cache' = Store(embeddings_cache, clean, embedding)
                /\ returned' = [fn |-> "get_embedding", texts |-> <<text>>,
                                embeddings |-> <<embedding>>]
    /\ first' = IF text \in DOMAIN first THEN first
                ELSE Store(first, text, returned'.embeddings[1])
    /\ UNCHANGED exceptEmbeddings

\* get_embeddings_batch(texts)
get_embeddings_batch(texts) ==
    /\ calls < MaxCalls
    /\ calls' = calls + 1
    /\ LET uncached_texts == SelectSeq(texts, LAMBDA text : text \notin DOMAIN embeddings_cache)
           clean_texts == [i \in 1..Len(uncached_texts) |-> Replace(uncached_texts[i])]
       IN  /\ api_requests' = IF uncached_texts # <<>> THEN Append(api_requests, clean_texts)
                              ELSE api_requests
           /\ embeddings_cache' = StoreAll(embeddings_cache, uncached_texts)
    /\ returned' = [fn |-> "get_embeddings_batch", texts |-> texts,
                    embeddings |-> [i \in 1..Len(texts) |-> embeddings_cache'[texts[i]]]]
    /\ UNCHANGED first
    /\ UNCHANGED exceptEmbeddings

CallGetEmbedding == \E text \in Texts : get_embedding(text)

CallGetEmbeddingsBatch ==
    \E n \in 1..MaxBatch : \E texts \in [1..n -> Texts] : get_embeddings_batch(texts)

EmbeddingsInit == Idle /\ client = "embeddings_basics"

EmbeddingsNext == CallGetEmbedding \/ CallGetEmbeddingsBatch

EmbeddingsSpec == EmbeddingsInit /\ [][EmbeddingsNext]_vars

\* ------------------------------------------------------------------ function calling
\* 01_openai_function_calling.py, Example 4: the complete function calling
\* workflow.  A JSON object text is the sequence of its <<key, value>> pairs.

Locations == {"San Francisco, CA", "Boston, MA"}

Units == {"celsius", "fahrenheit"}

\* json.loads of an object text: the dictionary of its pairs, the last pair
\* of a key winning.
loads(text) ==
    [k \in {text[i][1] : i \in DOMAIN text} |->
        text[CHOOSE i \in DOMAIN text :
                /\ text[i][1] = k
                /\ \A j \in DOMAIN text : text[j][1] = k => j <= i][2]]

\* json.dumps of a dictionary with the given order of keys
dumps(keys, dict) == [i \in DOMAIN keys |-> <<keys[i], dict[keys[i]]>>]

\* get_current_weather(**function_args); unit defaults to "fahrenheit"
get_current_weather(function_args) ==
    dumps(<<"location", "temperature", "unit", "forecast">>,
          [location |-> function_args["location"],
           temperature |-> "72",
           unit |-> IF "unit" \in DOMAIN function_args THEN function_args["unit"]
                    ELSE "fahrenheit",
           forecast |-> <<"sunny", "windy">>])

\* calculate_power(**function_args)
calculate_power(function_args) == Pow(function_args["base"], function_args["exponent"])

\* The names of the schemas in functions, and a name that is in none.
functions == {"get_current_weather", "calculate_power"}

FunctionNames == functions \cup {"get_time"}

\* The argument texts a function call may carry.
Arguments(name) ==
    CASE name = "get_current_weather" ->
             {<<<<"location", l>>>> : l \in Locations}
             \cup {<<<<"location", l>>, <<"unit", u>>>> : l \in Locations, u \in Units}
      [] name = "calculate_power" ->
             {<<<<"base", b>>, <<"exponent", e>>>> : b \in 0..MaxBase, e \in 0..MaxBase}
      [] OTHER -> {<<>>}

\* message.function_call of a message that calls no function
None == [name |-> "None", arguments |-> <<>>]

\* The messages the completion of Step 2 may answer with.
Responses ==
    {[function_call |-> None]}
    \cup UNION {{[function_call |-> [name |-> n, arguments |-> a]] : a \in Arguments(n)}
                : n \in FunctionNames}

\* Step 1: messages = [{"role": "user", "content": ...}]
Step1 ==
    /\ line = "step1"
    /\ messages' = <<[role |-> "user", content |-> "question"]>>
    /\ line' = "step2"
    /\ UNCHANGED <<response_message, function_response, final_request>>
    /\ UNCHANGED exceptWorkflow

\* Step 2: response = client.chat.completions.create(...)
Step2 ==
    /\ line = "step2"
    /\ \E message \in Responses : response_message' = message
    /\ line' = "step3"
    /\ UNCHANGED <<messages, function_response, final_request>>
    /\ UNCHANGED exceptWorkflow

\* if function_name == "get_current_weather": ... elif function_name ==
\* "calculate_power": ...
CallFunction(function_name, function_args, before) ==
    IF function_name = "get_current_weather"
    THEN [assigned |-> TRUE, value |-> get_current_weather(function_args)]
    ELSE IF function_name = "calculate_power"
         THEN [assigned |-> TRUE, value |-> calculate_power(function_args)]
         ELSE before

\* Step 3: the function call is executed and its result printed; reading
\* function_response before it is assigned raises NameError.
Step3 ==
    /\ line = "step3"
    /\ IF response_message.function_call = None
       THEN /\ line' = "end"
            /\ UNCHANGED function_response
       ELSE LET function_name == response_message.function_call.name
                function_args == loads(response_message.function_call.arguments)
            IN  /\ function_response' =
                       CallFunction(function_name, function_args, function_response)
                /\ line' = IF function_response'.assigned THEN "step4" ELSE "NameError"
    /\ UNCHANGED <<messages, response_message, final_request>>
    /\ UNCHANGED exceptWorkflow

\* Step 4: the two messages.append calls
Step4 ==
    /\ line = "step4"
    /\ messages' =
           Append(Append(messages,
                         [role |-> "assistant", content |-> "None",
                          function_call |->
                              [name |-> response_message.function_call.name,
                               arguments |-> response_message.function_call.arguments]]),
                  [role |-> "function",
                   name |-> response_message.function_call.name,
                   content |-> function_response.value])
    /\ line' = "step5"
    /\ UNCHANGED <<response_message, function_response, final_request>>
    /\ UNCHANGED exceptWorkflow

\* Step 5: final_response = client.chat.completions.create(messages=messages)
Step5 ==
    /\ line = "step5"
    /\ final_request' = messages
    /\ line' = "end"
    /\ UNCHANGED <<messages, response_message, function_response>>
    /\ UNCHANGED exceptWorkflow

WorkflowInit == Idle /\ client = "function_calling"

WorkflowNext == Step1 \/ Step2 \/ Step3 \/ Step4 \/ Step5

WorkflowSpec == WorkflowInit /\ [][WorkflowNext]_vars

\* ------------------------------------------------------------------ chatbot
\* 2_Your_own_chatbot.py: every interaction with a widget reruns the script
\* over st.session_state.

SystemMessage == [role |-> "system", content |-> "You are a polite academic teacher"]

Prompts == {"prompt 1", "prompt 2"}

\* What client.chat.completions.create and st.write_stream end with: the text
\* of the streamed response, or an exception.
Completions == {"response 1", "response 2", "Exception"}

ModelOptions == {"gpt-4o-mini", "gpt-4o", "gpt-35-turbo"}

\* A rerun after another option of the selectbox was chosen.
SelectModel ==
    /\ \E model_option \in ModelOptions \ {session_state.openai_model} :
           session_state' = [session_state EXCEPT !.openai_model = model_option]
    /\ UNCHANGED inputs
    /\ UNCHANGED exceptChatbot

\* A rerun after a click on "Clear Chat History"
ClearChatHistory ==
    /\ session_state' = [session_state EXCEPT !.messages = <<SystemMessage>>]
    /\ UNCHANGED inputs
    /\ UNCHANGED exceptChatbot

\* if prompt := st.chat_input(...): the user message is appended, then the
\* completion is requested; the assistant message is appended when the
\* request and its stream succeed, and the exception is reported otherwise.
ChatInput ==
    /\ inputs < MaxInputs
    /\ inputs' = inputs + 1
    /\ \E prompt \in Prompts, completion \in Completions :
           LET asked == Append(session_state.messages,
                               [role |-> "user", content |-> prompt])
           IN  session_state' =
                   [session_state EXCEPT !.messages =
                        IF completion = "Exception" THEN asked
                        ELSE Append(asked, [role |-> "assistant", content |-> completion])]
    /\ UNCHANGED exceptChatbot

ChatbotInit == Idle /\ client = "chatbot"

ChatbotNext == SelectModel \/ ClearChatHistory \/ ChatInput

ChatbotSpec == ChatbotInit /\ [][ChatbotNext]_vars

\* ------------------------------------------------------------------ ground truth
\* utils/generate_ground_truth.py: GroundTruthGenerator.generate_all_ground_truths

\* test_data["test_suite"]["categories"]: the categories in the order of the
\* file, each with its questions.
TestData ==
    {<<[name |-> "counting", description |-> "d1", questions |-> q1],
       [name |-> "listing", description |-> "d2", questions |-> q2]>> :
        q1 \in {<<>>, <<"q1">>, <<"q1", "q2">>},
        q2 \in {<<>>, <<"q3">>, <<"q3", "q1">>}}

\* The values of max_questions: None, or an integer.
MaxQuestions ==
    {[is_none |-> TRUE, value |-> 0]}
    \cup {[is_none |-> FALSE, value |-> n] : n \in (0 - 1)..MaxQuestion}

\* list[:n]
Slice(list, n) ==
    LET stop == IF n >= 0 THEN n ELSE Len(list) + n
    IN  SubSeq(list, 1, IF stop < 0 THEN 0 ELSE IF stop > Len(list) THEN Len(list) ELSE stop)

\* for question in category_data["questions"]: all_questions.append({...})
QuestionsOf(category) ==
    [i \in DOMAIN category.questions |->
        [question |-> category.questions[i],
         category |-> category.name,
         description |-> category.description]]

\* for category_name, category_data in ...items(): ...
RECURSIVE Extract(_)
Extract(categories) ==
    IF categories = <<>> THEN <<>>
    ELSE QuestionsOf(Head(categories)) \o Extract(Tail(categories))

\* How self.llm.ainvoke(prompt) may end: with a response, or with an exception.
Endings == {"response", "Exception"}

\* A generate_ground_truth_for_question whose except branch gives a record
\* without the status "error".
generate_ground_truth_for_question_unmarked(question, cv_texts, ending) ==
    [question |-> question,
     ground_truth_answer |-> IF ending = "response" THEN "answer" ELSE "ERROR",
     num_cvs_used |-> Len(cv_texts),
     status |-> IF ending = "response" THEN "success" ELSE "unknown"]

\* generate_ground_truth_for_question(question, all_cv_texts), given how the
\* call of the model ends
generate_ground_truth_for_question(question, cv_texts, ending) ==
    IF ending = "response"
    THEN [question |-> question,
          ground_truth_answer |-> "answer",
          num_cvs_used |-> Len(cv_texts),
          status |-> "success"]
    ELSE [question |-> question,
          ground_truth_answer |-> "ERROR",
          num_cvs_used |-> Len(cv_texts),
          status |-> "error"]

\* len([r for r in results if r["status"] == wanted])
CountStatus(list, wanted) == Cardinality({i \in DOMAIN list : list[i].status = wanted})

\* The CVs and the questions are loaded and the questions selected.
LoadQuestions ==
    /\ stage = "start"
    /\ \E num_cvs \in 1..2 : all_cv_texts' = [i \in 1..num_cvs |-> "cv"]
    /\ \E categories \in TestData, max_questions \in MaxQuestions :
           /\ test_data' = categories
           /\ all_questions' =
                  IF ~max_questions.is_none /\ max_questions.value # 0
                  THEN Slice(Extract(categories), max_questions.value)
                  ELSE Extract(categories)
    /\ results' = <<>>
    /\ stage' = "loop"
    /\ UNCHANGED <<outcomes, ground_truth_data>>
    /\ UNCHANGED exceptTruth

\* One round of: for i, question_data in enumerate(all_questions)
GenerateNext ==
    /\ stage = "loop"
    /\ Len(results) < Len(all_questions)
    /\ \E ending \in Endings :
           LET i == Len(results)
               question_data == all_questions[i + 1]
               result == generate_ground_truth_for_question(
                             question_data.question, all_cv_texts, ending)
           IN  /\ results' = Append(results,
                                    [question |-> result.question,
                                     ground_truth_answer |-> result.ground_truth_answer,
                                     num_cvs_used |-> result.num_cvs_used,
                                     status |-> result.status,
                                     category |-> question_data.category,
                                     category_description |-> question_data.description,
                                     question_index |-> i + 1])
               /\ outcomes' = Append(outcomes, ending)
    /\ UNCHANGED <<test_data, all_cv_texts, all_questions, ground_truth_data, stage>>
    /\ UNCHANGED exceptTruth

\* Compile final results
Compile ==
    /\ stage = "loop"
    /\ Len(results) = Len(all_questions)
    /\ ground_truth_data' =
           [metadata |->
                [num_questions |-> Len(results),
                 num_cvs |-> Len(all_cv_texts),
                 total_successful |-> CountStatus(results, "success"),
                 total_errors |-> CountStatus(results, "error")],
            ground_truth_answers |-> results]
    /\ stage' = "returned"
    /\ UNCHANGED <<test_data, all_cv_texts, all_questions, results, outcomes>>
    /\ UNCHANGED exceptTruth

TruthInit == Idle /\ client = "generate_ground_truth"

TruthNext == LoadQuestions \/ GenerateNext \/ Compile

TruthSpec == TruthInit /\ [][TruthNext]_vars /\ WF_vars(GenerateNext) /\ WF_vars(Compile)

\* ------------------------------------------------------------------ properties

\* The exchanges a state shows: the one on its way back and the last completed.
Shown == {ex \in {reply, last} : ex.req.kind # "none"}

\* The exchange was answered by the Host with a tool list or a ToolCallResult.
Served(ex) == ex.resp.kind \in {"tools", "result"}

\* A dispatched call of a tool of the Host with arguments that validate.
Valid(ex, tool) ==
    /\ ex.req.kind = "call"
    /\ ex.req.tool = tool
    /\ tool \in Range(Registered(host))
    /\ ex.resp.kind = "result"
    /\ Offending(tool, ex.req.args) = ""

TextOf(ex) == ex.resp.result.content[1].text

\* C1: a list or a tool call is served only on a READY Session: a scripted
\* Client has no list or call outstanding on a Session whose handshake has not
\* completed, and a list or call handled on an UNINITIALIZED Session is
\* answered with the handshake-required error without running a tool body.
C1_ServedOnlyWhenReady ==
    /\ \A ex \in Shown : Served(ex) => ex.st = "READY"
    /\ (client \in Scripted /\ pending.kind \in {"list", "call"}) => Cur # "UNINITIALIZED"
    /\ \A ex \in Shown :
           (ex.st = "UNINITIALIZED" /\ ex.req.kind \in {"list", "call"})
               => /\ ex.resp.kind = "rpc_error"
                  /\ ex.resp.error = "handshake required"
                  /\ ~ex.invoked

\* A peer's tool call on an UNINITIALIZED Session came back rejected.
C1_Witness ==
    /\ last.req.kind = "call"
    /\ last.st = "UNINITIALIZED"
    /\ last.resp.kind = "rpc_error"

\* What a step may do to the Sessions.
C2_Transition ==
    /\ Len(sessions') >= Len(sessions)
    /\ \A i \in 1..Len(sessions') :
           IF i > Len(sessions) THEN sessions'[i] = "UNINITIALIZED"
           ELSE \/ sessions'[i] = sessions[i]
                \/ /\ sessions[i] = "UNINITIALIZED"
                   /\ sessions'[i] = "READY"
                   /\ pending.kind = "initialize"
                   /\ reply'.resp.kind = "initialized"
                \/ sessions'[i] = "CLOSED"
    /\ (reply.req.kind = "none" /\ reply'.req.kind \in {"list", "call"})
           => sessions' = sessions

\* C2: every Session is UNINITIALIZED, READY or CLOSED, a new one starts
\* UNINITIALIZED, a step changes a Session only from UNINITIALIZED to READY
\* (when the Host answers initialize) or to CLOSED, and the step in which the
\* Host answers a list or a call changes no Session.
C2_SessionStateMachine ==
    /\ [](Range(sessions) \subseteq SessionStates)
    /\ [][C2_Transition]_vars

\* A second Session is READY with a tool call answered on it, after a first
\* one was closed.
C2_Witness ==
    /\ Len(sessions) = 2
    /\ sessions[1] = "CLOSED"
    /\ sessions[2] = "READY"
    /\ reply.resp.kind = "result"

\* C4: a call of a name that the Host's registry does not hold is answered with
\* an UnknownToolError error result, no tool body runs, and the Session is
\* READY when the answer leaves the dispatcher.
C4_UnknownTool ==
    /\ \A ex \in Shown :
           (ex.req.kind = "call" /\ ex.st = "READY"
            /\ ex.req.tool \notin Range(Registered(host)))
               => /\ ex.resp.kind = "result"
                  /\ ex.resp.result.is_error
                  /\ ex.resp.result.error = "UnknownToolError"
                  /\ ~ex.invoked
    /\ (reply.req.kind = "call" /\ reply.resp.kind = "result"
        /\ reply.req.tool \notin Range(Registered(host)))
           => Cur = "READY"

\* The answer to a call of a tool of another Host is on its way back.
C4_Witness ==
    /\ host = "wikipedia"
    /\ reply.req.tool = "add"
    /\ reply.resp.kind = "result"

\* C5: divide with b = 0 and sqrt with a < 0 are answered with an error result
\* that carries the tool's message, never with a number.
C5_DomainErrors ==
    \A ex \in Shown :
        /\ (Valid(ex, "divide") /\ ex.req.args.b.v = 0)
               => /\ ex.resp.result.is_error
                  /\ TextOf(ex).s = "Cannot divide by zero"
        /\ (Valid(ex, "sqrt") /\ ex.req.args.a.v < 0)
               => /\ ex.resp.result.is_error
                  /\ TextOf(ex).s = "Cannot calculate square root of negative number"

\* A divide by zero was answered after a square root of a negative number.
C5_Witness ==
    /\ Valid(last, "sqrt") /\ last.req.args.a.v < 0
    /\ Valid(reply, "divide") /\ reply.req.args.b.v = 0

\* C9: add with {a: x, b: y} returns x + y, and the same with the arguments
\* swapped.
C9_Add ==
    /\ \A ex \in Shown :
           Valid(ex, "add")
               => /\ ~ex.resp.result.is_error
                  /\ TextOf(ex).s = "float"
                  /\ TextOf(ex).num = ex.req.args.a.v + ex.req.args.b.v
                  /\ TextOf(ex).den = 1
    /\ (/\ Valid(last, "add") /\ Valid(reply, "add")
        /\ reply.req.args.a = last.req.args.b
        /\ reply.req.args.b = last.req.args.a)
           => reply.resp.result = last.resp.result

\* add(-1, 1) was answered and the answer to add(1, -1) is on its way back.
C9_Witness ==
    /\ Valid(last, "add") /\ last.req.args = [a |-> N(-1), b |-> N(1)]
    /\ Valid(reply, "add") /\ reply.req.args = [a |-> N(1), b |-> N(-1)]

\* The names of a descriptor sequence are pairwise distinct.
Distinct(tools) ==
    \A i, j \in 1..Len(tools) : tools[i].name = tools[j].name => i = j

\* C10: no tool list a Host returns holds two descriptors of the same name.
C10_NoDuplicateNames ==
    \A ex \in Shown : ex.resp.kind = "tools" => Distinct(ex.resp.tools)

\* The wikipedia Host's list of four tools has been returned.
C10_Witness ==
    /\ last.resp.kind = "tools"
    /\ host = "wikipedia"
    /\ Len(last.resp.tools) = 4

\* No step takes a Session out of CLOSED.
C3_ClosedStaysClosed ==
    \A i \in 1..Len(sessions) : sessions[i] = "CLOSED" => sessions'[i] = "CLOSED"

\* C3: a CLOSED Session stays CLOSED, no request handled on it is served, and
\* a list or call awaited on it ends with a Session-level error.
C3_ClosedIsTerminal ==
    /\ [][C3_ClosedStaysClosed]_vars
    /\ [](\A ex \in Shown :
              ex.st = "CLOSED" => (ex.resp.kind = "session_error" /\ ~ex.invoked))
    /\ (pc = "awaiting" /\ Cur = "CLOSED" /\ pending.kind \in {"list", "call"})
           ~> (pc # "awaiting" /\ last.resp.kind = "session_error")

\* A tool call awaited on a CLOSED Session ended with the Session-level error.
C3_Witness ==
    /\ last.req.kind = "call"
    /\ last.st = "CLOSED"
    /\ last.resp.kind = "session_error"

\* What a tool body does with the exchange's arguments and network outcomes.
Body(ex) == Handler(ex.req.tool, ex.req.args, ex.ups, env)

\* One of the HTTP requests the tool body sent failed.
UpstreamFailed(ex) == \E i \in 1..ex.http : Failed(ex.ups[i])

\* The call-level errors the dispatcher makes itself.
C6_DispatcherErrors ==
    \A ex \in Shown :
        (ex.req.kind = "call" /\ ex.st = "READY")
            => /\ ex.resp.kind = "result"
               /\ ex.req.tool \notin Range(Registered(host))
                      => ex.resp.result.is_error
               /\ (ex.req.tool \in Range(Registered(host))
                   /\ Offending(ex.req.tool, ex.req.args) # "")
                      => ex.resp.result.is_error
               /\ (Valid(ex, ex.req.tool) /\ Body(ex).raised)
                      => ex.resp.result.is_error

Unable ==
    {"Unable to fetch forecast data for this location.",
     "Unable to fetch weather data for this location.",
     "Unable to fetch weather data for",
     "Unable to search Wikipedia or no results found.",
     "Unable to fetch summary for:",
     "Unable to fetch content for:",
     "Unable to fetch random article.",
     "Unable to search ArXiv:",
     "Unable to perform search. Please check your query and try again."}

CallError(ex) == ex.resp.kind = "result" /\ ex.resp.result.is_error

\* C7: a call-level error leaves the registry as registered and the Session
\* READY, and the call after it is answered as on a Session that has seen no
\* call.
C7_ErrorLeavesSessionUsable ==
    /\ registry = [h \in Hosts |-> Registered(h)]
    /\ CallError(reply) => Cur = "READY"
    /\ (CallError(last) /\ reply.req.kind = "call")
           => reply = Handle(Sid, "READY", Registered(host), reply.req, TRUE, reply.ups, env)

\* After a divide by zero the answer to an add on the same Session is on its
\* way back.
C7_Witness ==
    /\ CallError(last) /\ last.req.tool = "divide"
    /\ Valid(reply, "add") /\ reply.sid = last.sid
    /\ ~reply.resp.result.is_error

\* The number n/d is what the text block holds.
Holds(ex, n, d) ==
    /\ ~ex.resp.result.is_error
    /\ TextOf(ex).s = "float"
    /\ TextOf(ex).num * d = n * TextOf(ex).den

\* multiply returns the product of its arguments.
C8_Multiply ==
    \A ex \in Shown :
        Valid(ex, "multiply") => Holds(ex, ex.req.args.a.v * ex.req.args.b.v, 1)

\* The calls of demo_math_server: 7 times 6 is 42 and 2 to the power 8 is 256.
C8_Scenario ==
    (/\ Valid(last, "multiply") /\ last.req.args = [a |-> N(7), b |-> N(6)]
     /\ Valid(reply, "power") /\ reply.req.args = [a |-> N(2), b |-> N(8)])
        => /\ ~last.resp.result.is_error /\ TextOf(last).num = 42 /\ TextOf(last).den = 1
           /\ ~reply.resp.result.is_error /\ TextOf(reply).num = 256 /\ TextOf(reply).den = 1

\* C8 as claimed: multiply returns a * b and power returns a to the power b,
\* as a non-error result, for all a and b and whatever was called before.
C8_MultiplyPower ==
    /\ C8_Multiply
    /\ C8_Scenario
    /\ \A ex \in Shown :
           Valid(ex, "power")
               => LET a == ex.req.args.a.v
                      b == ex.req.args.b.v
                  IN  IF b >= 0 THEN Holds(ex, Pow(a, b), 1)
                      ELSE Holds(ex, 1, Pow(a, 0 - b))

\* C8 as amended: power returns a to the power b unless a = 0 and b < 0, which
\* is answered with an error result.
C8_MultiplyPowerDefined ==
    /\ C8_Multiply
    /\ C8_Scenario
    /\ \A ex \in Shown :
           Valid(ex, "power")
               => LET a == ex.req.args.a.v
                      b == ex.req.args.b.v
                  IN  IF b >= 0 THEN Holds(ex, Pow(a, b), 1)
                      ELSE IF a # 0 THEN Holds(ex, 1, Pow(a, 0 - b))
                      ELSE ex.resp.result.is_error

\* demo_math_server has its answer to multiply(7, 6) and the answer to
\* power(2, 8) is on its way back.
C8_Witness ==
    /\ client = "demo_math_server"
    /\ last.req.tool = "multiply" /\ TextOf(last).num = 42
    /\ reply.req.tool = "power" /\ TextOf(reply).num = 256

\* C11: no step changes a registry, every registry is what the server script
\* registered at import, and every list() returns the descriptors of that
\* sequence, so two list() calls on a Host return the same.
C11_RegistryReadOnly ==
    /\ [][registry' = registry]_vars
    /\ [](\A h \in Hosts : registry[h] = Registered(h))
    /\ [](\A ex \in Shown :
              ex.resp.kind = "tools" => ex.resp.tools = ListTools(Registered(host)))
    /\ []((last.resp.kind = "tools" /\ reply.resp.kind = "tools")
              => reply.resp.tools = last.resp.tools)

\* A tool body ran and raised, and the list() after it returns the seven tools
\* of math_server.py.
C11_Witness ==
    /\ CallError(last) /\ last.invoked
    /\ reply.resp.kind = "tools"
    /\ Len(reply.resp.tools) = 7

\* The requests of the current Session the Client has the answer to, and those
\* it has sent and has no answer to.
Completed == IF last.req.kind = "none" THEN 0 ELSE last.req.id + 1

Outstanding == sent - Completed

\* C12: on a Session the Client has at most one request outstanding: it is the
\* last one sent, the Client is suspended on it, and every request sent before
\* it has been answered.
C12_OneOutstanding ==
    /\ Outstanding \in {0, 1}
    /\ Outstanding = 1 <=> pending.kind # "none"
    /\ pending.kind # "none" <=> pc = "awaiting"
    /\ pending.kind # "none" => pending.id = sent - 1
    /\ last.req.kind # "none" => last.sid = Sid

\* demo_math_server has the answer to add and waits for that to multiply.
C12_Witness ==
    /\ client = "demo_math_server"
    /\ last.req.tool = "add"
    /\ pending.tool = "multiply"
    /\ reply.req.kind = "none"

\* A response to a request of the given kind.
Answers(resp, kind) ==
    CASE kind = "initialize" -> resp.kind \in {"initialized", "session_error"}
      [] kind = "list" -> resp.kind \in {"tools", "rpc_error", "session_error"}
      [] kind = "call" -> resp.kind \in {"result", "rpc_error", "session_error"}
      [] OTHER -> FALSE

\* The exchange the Client completes in a step is the answer to the request
\* it was suspended on.
C13_Taken ==
    (last' # last /\ last'.req.kind # "none") => last'.req = pending

\* C13: every response carries the identifier of its request and is a
\* response to a request of that kind, a response on its way back is the one
\* to the outstanding request, responses come in the order of the requests,
\* and the Client completes a request only with its own response.
C13_OrderedAndCorrelated ==
    /\ [](\A ex \in Shown : ex.resp.id = ex.req.id /\ Answers(ex.resp, ex.req.kind))
    /\ [](reply.req.kind # "none" => (reply.req = pending /\ reply.sid = Sid))
    /\ []((last.req.kind # "none" /\ reply.req.kind # "none")
              => reply.req.id = last.req.id + 1)
    /\ [][C13_Taken]_vars

\* The response to the third request of a Session is on its way back after
\* the response to the second was taken.
C13_Witness ==
    /\ last.req.id = 1 /\ last.resp.id = 1
    /\ reply.req.id = 2 /\ reply.resp.id = 2
    /\ reply.req # last.req

\* C14: when no Client function runs, every Session opened so far is CLOSED
\* and no Host process is left; a CLOSED Session has no Host process; and a
\* Session that is open is eventually CLOSED with its function ended.
C14_SessionsAreClosed ==
    /\ [](pc = "idle" => (\A i \in 1..Len(sessions) : sessions[i] = "CLOSED"))
    /\ [](Cur \in {"CLOSED", "NONE"} => ~hostUp)
    /\ [](outcome # "" => Cur = "CLOSED")
    /\ (Cur \in {"UNINITIALIZED", "READY"}) ~> (pc = "idle" /\ Cur = "CLOSED")

\* demo_weather_server has ended in its except clause after a transport error
\* during a tool call, and its Session is CLOSED.
C14_Witness ==
    /\ client = "demo_weather_server"
    /\ outcome = "failed"
    /\ last.req.kind = "call"
    /\ last.resp.error = "TransportError"
    /\ Cur = "CLOSED"

\* The request a scripted Client sends as its k-th on a Session: the k-th
\* await of its function.
Scheduled(ex) ==
    LET k == ex.req.id + 1
        r == Req(ex.req.kind, ex.req.tool, ex.req.args)
    IN  IF client = "call_mcp_tool"
        THEN k <= 2 /\ (k = 1 <=> r = Initialize) /\ (k = 2 => r.kind = "call")
        ELSE k <= Len(ScriptOf(client)) /\ r = ScriptOf(client)[k]

\* No tool body sends a request a second time, a request that failed is the
\* last one of its call, and no scripted Client sends an await of its function
\* twice or goes on after an exception.
C15_SentOnce ==
    /\ \A ex \in Shown :
           (ex.resp.kind = "result" /\ ex.invoked)
               => /\ ex.http <= Requests(ex.req.tool, env)
                  /\ \A i \in 1..ex.http : Failed(ex.ups[i]) => ex.http = i
    /\ client \in Scripted
           => /\ \A ex \in Shown : Scheduled(ex)
              /\ pending.kind # "none" => Scheduled([req |-> pending])
              /\ outcome \in {"failed", "main failed", "unhandled"}
                     => (pc = "idle" /\ pending.kind = "none")

C16_MissingCredential ==
    /\ (host = "weather" /\ ~env.OPENWEATHERMAP_API_KEY)
           => /\ ~hostUp
              /\ Cur # "READY"
              /\ \A ex \in Shown : ex.resp.kind = "session_error" /\ ~ex.invoked
    /\ \A e \in Envs : HostStarts("tavily", e)
    /\ (host = "tavily" /\ ~env.TAVILY_API_KEY)
           => \A ex \in Shown :
                  (Valid(ex, "search") \/ Valid(ex, "search_news"))
                      => /\ ex.invoked
                         /\ ex.http = 0
                         /\ ~ex.resp.result.is_error
                         /\ TextOf(ex).s =
                                "Tavily API key not found. Please set TAVILY_API_KEY environment variable."

\* A web-search Host without its key has answered search and search_news.
C16_Witness ==
    /\ host = "tavily" /\ ~env.TAVILY_API_KEY
    /\ Valid(last, "search")
    /\ Valid(reply, "search_news")

\* The parameters of a tool that the arguments leave out though required, or
\* give a value of the wrong type.
BadFields(tool, args) ==
    LET ps == Params(tool)
    IN  {ps[i].name : i \in {k \in 1..Len(ps) :
                                IF ps[k].name \in DOMAIN args
                                THEN ps[k].type = "str" <=> args[ps[k].name].t # "str"
                                ELSE ps[k].required}}

\* C17: a call of a registered tool whose arguments leave out a required
\* parameter or give one a value of the wrong type is answered with an
\* InvalidArgumentsError error result that names such a parameter, and neither
\* the tool body nor a request of it has run; add without b names b, and
\* factorial with a string names n.
C17_InvalidArguments ==
    \A ex \in Shown :
        (ex.req.kind = "call" /\ ex.st = "READY"
         /\ ex.req.tool \in Range(Registered(host)))
            => /\ BadFields(ex.req.tool, ex.req.args) # {}
                   => /\ ex.resp.kind = "result"
                      /\ ex.resp.result.is_error
                      /\ ex.resp.result.error = "InvalidArgumentsError"
                      /\ TextOf(ex).of \in BadFields(ex.req.tool, ex.req.args)
                      /\ ~ex.invoked
                      /\ ex.http = 0
               /\ (ex.req.tool = "add" /\ DOMAIN ex.req.args = {"a"})
                   => TextOf(ex).of = "b"
               /\ (ex.req.tool = "factorial" /\ ex.req.args = [n |-> S(0)])
                   => TextOf(ex).of = "n"

\* add without b was rejected, and the rejection of factorial with a string is
\* on its way back.
C17_Witness ==
    /\ last.req.tool = "add" /\ DOMAIN last.req.args = {"a"}
    /\ last.resp.kind = "result"
    /\ reply.req.tool = "factorial" /\ reply.req.args = [n |-> S(0)]
    /\ reply.resp.kind = "result"

\* C18: a demo that ended on a Session-level error ended with a demo-failed
\* message of its own except clause or of main's, and no exception of a demo
\* is left unhandled.
C18_FailureIsReported ==
    client \in Demos
        => /\ outcome # "unhandled"
           /\ (pc = "idle" /\ last.resp.kind = "session_error")
                  => outcome \in {"failed", "main failed"}

\* A step that opens a Session opens one, with every earlier one CLOSED, and
\* starts it UNINITIALIZED with nothing sent, nothing outstanding and nothing
\* answered.
C19_Opened ==
    Len(sessions') # Len(sessions)
        => /\ Len(sessions') = Len(sessions) + 1
           /\ \A i \in 1..Len(sessions) : sessions[i] = "CLOSED" /\ sessions'[i] = "CLOSED"
           /\ sessions'[Len(sessions')] = "UNINITIALIZED"
           /\ sent' = 0
           /\ pending' = NoReq /\ reply' = NoExchange /\ last' = NoExchange
           /\ registry' = registry

\* C19: at most one Session is open at any time, a new one starts with
\* nothing of the earlier ones, every answer to a call is what the Host's
\* registration, the request and the network give, whatever Sessions came
\* before, and call_mcp_tool sends one initialize and one call on its Session
\* and has both answered when it returns.
C19_FreshSessions ==
    /\ [][C19_Opened]_vars
    /\ [](\A i \in 1..(Len(sessions) - 1) : sessions[i] = "CLOSED")
    /\ [](\A ex \in Shown :
              /\ ex.sid = Sid
              /\ (ex.req.kind = "call" /\ ex.st = "READY")
                     => ex = Handle(Sid, "READY", Registered(host), ex.req, TRUE,
                                    ex.ups, env))
    /\ [](client = "call_mcp_tool"
              => /\ sent <= 2
                 /\ \A ex \in Shown : ex.req.kind = "call" <=> ex.req.id = 1
                 /\ outcome = "returned"
                        => (sent = 2 /\ last.req.kind = "call" /\ Cur = "CLOSED"))

\* call_mcp_tool has returned from its second invocation, each on a Session
\* of its own.
C19_Witness ==
    /\ client = "call_mcp_tool"
    /\ Len(sessions) = 2
    /\ sessions[1] = "CLOSED" /\ sessions[2] = "CLOSED"
    /\ outcome = "returned"
    /\ last.resp.kind = "result"

\* The invocations whose messages a thread holds.
Holding(cfg) == {m.example : m \in Range(get_state(cfg))}

\* C20: Example 5 runs in the thread of the second session, whose history
\* has no message of the first, and once the script has made its seven
\* invocations the first thread holds the messages of Examples 1-4 alone and
\* the second those of Examples 5-7.
C20_SeparateContexts ==
    /\ run.example = 5 => (run.thread_id = new_session_id /\ run.seen = {})
    /\ example > Len(Examples)
           => /\ Holding(config) = 1..4
              /\ Holding(new_config) = 5..7

\* The completed runs of a node in the trace, and the place of its first.
Count(node) == Cardinality({i \in 1..Len(trace) : trace[i].node = node /\ trace[i].ok})

Place(node) == CHOOSE i \in 1..Len(trace) : trace[i].node = node

Middle == {channels.state[2], channels.state[3]}

\* C21: in the simple parallel graph a runs once and first, b and c once
\* each after a, d once and only after both b and c; the run does not fail
\* and ends, and at its end the state list is "I am A", then "I am B" and
\* "I am C" in either order, then "I am D".
C21_ParallelGraph ==
    /\ [](graph = "simple_graph"
              => /\ status # "failed"
                 /\ \A n \in {"a", "b", "c", "d"} : Count(n) <= 1
                 /\ trace # <<>> => trace[1].node = "a"
                 /\ Count("d") = 1
                        => /\ Count("b") = 1 /\ Place("b") < Place("d")
                           /\ Count("c") = 1 /\ Place("c") < Place("d")
                 /\ status = "done"
                        => /\ \A n \in {"a", "b", "c", "d"} : Count(n) = 1
                           /\ Len(channels.state) = 4
                           /\ channels.state[1] = "I am A"
                           /\ Middle = {"I am B", "I am C"}
                           /\ channels.state[4] = "I am D")
    /\ (graph = "simple_graph") ~> (status = "done")

\* The simple parallel graph has run to its end.
C21_Witness ==
    /\ graph = "simple_graph"
    /\ status = "done"
    /\ channels.state = <<"I am A", "I am B", "I am C", "I am D">>

\* The runs of a node in the trace, completed or not.
Runs(node) == Cardinality({i \in 1..Len(trace) : trace[i].node = node})

\* The tasks of the map phase are one generate_joke per element of subjects,
\* each with its element; generate_joke has run once for every task that has
\* run, and once for every element when the phase is over; best_joke runs at
\* most once, after all of them, with as many jokes as subjects.
C22_MapThenReduce ==
    graph = "app"
        => /\ superstep = 1 => Runs("generate_joke") = 0
           /\ superstep = 2
                  => /\ Len(tasks) = Len(channels.subjects)
                     /\ \A i \in 1..Len(tasks) :
                            /\ tasks[i].node = "generate_joke"
                            /\ tasks[i].arg = [subject |-> channels.subjects[i]]
                     /\ Runs("generate_joke")
                            = Cardinality({i \in 1..Len(tasks) : tasks[i].ran})
           /\ superstep >= 3 => Count("generate_joke") = Len(channels.subjects)
           /\ Runs("best_joke") <= 1
           /\ (Runs("best_joke") = 1 \/ (superstep = 3 /\ status = "running"))
                  => /\ Len(channels.subjects) > 0
                     /\ Count("generate_joke") = Len(channels.subjects)
                     /\ Len(channels.jokes) = Len(channels.subjects)
                     /\ \A i \in 1..Len(trace) :
                            trace[i].node = "generate_joke" => trace[i].step = 2
                     /\ \A i \in 1..Len(trace) :
                            trace[i].node = "best_joke" => trace[i].step = 3

\* C22 as stated: generate_joke runs once for each element of subjects, and
\* best_joke runs exactly once, after all of them, with as many jokes as
\* subjects.
C22_BestJokeAlwaysRuns ==
    /\ C22_MapThenReduce
    /\ graph = "app" /\ status = "done" => Runs("best_joke") = 1

\* C22, amended: generate_joke runs once for each element of subjects;
\* best_joke runs once, after all of them and with as many jokes as subjects,
\* when subjects is not empty, and does not run when it is.
C22_BestJokeRunsAfterJokes ==
    /\ []C22_MapThenReduce
    /\ (graph = "app" /\ superstep >= 2 /\ channels.subjects # <<>>)
           ~> (Runs("best_joke") = 1)
    /\ [](graph = "app" /\ superstep >= 2 /\ channels.subjects = <<>>
              => status = "done" /\ Runs("best_joke") = 0)

\* best_joke has run after three runs of generate_joke.
C22_Witness ==
    /\ graph = "app"
    /\ status = "done"
    /\ Len(channels.subjects) = 3
    /\ Count("generate_joke") = 3
    /\ Count("best_joke") = 1

\* C23: every run of the simple conditional graph runs Node_1 first and once,
\* then one of Node_2 and Node_3, never both, and ends; at its end graph_state
\* is the input, then " I am", then " happy :)" after Node_2 or " sad :("
\* after Node_3.
C23_OneMood ==
    /\ [](graph = "graph"
              => /\ status # "failed"
                 /\ trace # <<>> => trace[1].node = "Node_1"
                 /\ Runs("Node_1") <= 1
                 /\ Runs("Node_2") + Runs("Node_3") <= 1
                 /\ status = "done"
                        => /\ Count("Node_1") = 1
                           /\ Count("Node_2") + Count("Node_3") = 1
                           /\ channels.graph_state
                                  = Input("graph").graph_state \o <<" I am">>
                                    \o (IF Count("Node_2") = 1 THEN <<" happy :)">>
                                        ELSE <<" sad :(">>))
    /\ (graph = "graph") ~> (status = "done")

\* A run has ended after Node_1 and Node_3.
C23_Witness ==
    /\ graph = "graph"
    /\ status = "done"
    /\ channels.graph_state = <<"Hello, I am Tom.", " I am", " sad :(">>

\* The message the run of trace[j] added: the input is the first message and
\* every run of a node adds one.
Added(j) == channels.messages[j + 1]

\* A step of the tool-executor graph keeps the messages there are.
C24_Grows ==
    (graph = "tool_executor_graph" /\ graph' = graph)
        => /\ Len(channels'.messages) >= Len(channels.messages)
           /\ SubSeq(channels'.messages, 1, Len(channels.messages)) = channels.messages

\* C24: in the tool-executor graph the tools node runs only right after a
\* run of llm_with_tools whose response has a tool call, llm_with_tools is
\* what runs after the tools node, and a run ends only after a run of
\* llm_with_tools whose response has no tool call, that response being the
\* last message; the message list only grows.
C24_ToolLoop ==
    /\ [](graph = "tool_executor_graph"
              => /\ trace # <<>> => trace[1].node = "llm_with_tools"
                 /\ \A j \in 1..Len(trace) :
                        trace[j].node = "tools"
                            => /\ j > 1
                               /\ trace[j - 1].node = "llm_with_tools"
                               /\ Added(j - 1).type = "ai"
                               /\ Added(j - 1).tool_call # NoCall
                               /\ j < Len(trace) => trace[j + 1].node = "llm_with_tools"
                 /\ status = "done"
                        => /\ trace[Len(trace)].node = "llm_with_tools"
                           /\ Len(channels.messages) = Len(trace) + 1
                           /\ Added(Len(trace)).type = "ai"
                           /\ Added(Len(trace)).tool_call = NoCall)
    /\ [][C24_Grows]_vars
    /\ (graph = "tool_executor_graph" /\ status = "running" /\ trace # <<>>
            /\ trace[Len(trace)].node = "tools" /\ trace[Len(trace)].ok)
           ~> (trace # <<>> /\ trace[Len(trace)].node = "llm_with_tools")

\* A run has ended after two rounds of tool calls.
C24_Witness ==
    /\ graph = "tool_executor_graph"
    /\ status = "done"
    /\ Len(trace) = 5
    /\ trace[4].node = "tools"
    /\ channels.messages[5].type = "tool"

\* C30: best_joke never fails, whatever id the model answers with and however
\* many jokes there are, and when it has completed best_selected_joke is one
\* of the jokes of the map phase.
C30_BestJokeIndexInRange ==
    graph = "app"
        => /\ \A i \in 1..Len(trace) : trace[i].node = "best_joke" => trace[i].ok
           /\ (status = "done" /\ Count("best_joke") = 1)
                  => channels.best_selected_joke \in Range(channels.jokes)

\* The entries of the upstream list of a date.
OfDate(date) == SelectSeq(data.list, LAMBDA item : item.dt_txt[1] = date)

\* C25: get_forecast emits at most five entries, of distinct dates, and the
\* entry of a date is the 12:00:00 entry of that date when the upstream list
\* has one, and the first entry of the date otherwise.
C25_MiddayPreferred ==
    /\ Len(forecasts) <= 5
    /\ \A i, j \in 1..Len(forecasts) :
           forecasts[i].dt_txt[1] = forecasts[j].dt_txt[1] => i = j
    /\ \A i \in 1..Len(forecasts) :
           LET date == forecasts[i].dt_txt[1]
           IN  IF Entry(date, "12:00:00") \in Range(data.list)
               THEN forecasts[i] = Entry(date, "12:00:00")
               ELSE forecasts[i] = OfDate(date)[1]

\* A call of get_embedding for a text it has returned an embedding of before
\* issues no API request and returns that embedding.
C26_SecondCall ==
    \A text \in Texts :
        (/\ text \in DOMAIN first
         /\ calls' = calls + 1
         /\ returned'.fn = "get_embedding"
         /\ returned'.texts = <<text>>)
            => /\ api_requests' = api_requests
               /\ returned'.embeddings = <<first[text]>>

\* C26: for every text, with or without newlines, once get_embedding(text)
\* has returned, every later get_embedding(text) returns the same stored
\* embedding without an API request.
C26_NeverTwice == [][C26_SecondCall]_vars

\* The conversation Step 5 is to send after a function call.
Expected ==
    <<[role |-> "user", content |-> "question"],
      [role |-> "assistant", content |-> "None",
       function_call |-> response_message.function_call],
      [role |-> "function", name |-> response_message.function_call.name,
       content |-> function_response.value]>>

\* C27: whenever the response of Step 2 carries a function call, whatever
\* function it names, Step 3 assigns function_response before using it (no
\* NameError), and the final completion request is sent with the user message,
\* the assistant function_call message and the function result message, in
\* this order.
C27_ResultBeforeUse ==
    (response_message.function_call # None /\ line \notin {"step1", "step2", "step3"})
        => /\ line # "NameError"
           /\ function_response.assigned
           /\ line \in {"step5", "end"} => messages = Expected
           /\ line = "end" => final_request = Expected

\* The role the message at a position of an alternating history has.
RoleAt(i) == IF i = 1 THEN "system" ELSE IF i % 2 = 0 THEN "user" ELSE "assistant"

\* C28: after any chat inputs, Clear Chat History clicks and failed
\* completion requests, the stored history is one system message followed by
\* strictly alternating user and assistant messages.
C28_Alternating ==
    /\ session_state.messages # <<>>
    /\ \A i \in DOMAIN session_state.messages : session_state.messages[i].role = RoleAt(i)

\* The record at position i of results is the one of the i-th selected
\* question, with the status of how its generation ended.
RecordOf(i) ==
    /\ results[i].question = all_questions[i].question
    /\ results[i].category = all_questions[i].category
    /\ results[i].question_index = i
    /\ results[i].status = IF outcomes[i] = "Exception" THEN "error" ELSE "success"

\* C29: generate_all_ground_truths produces one result record per selected
\* question, in question order and with question_index = position + 1,
\* whatever generations fail: a failure gives a record of status "error" and
\* the loop goes on with the remaining questions, so that in the returned
\* data total_successful + total_errors = num_questions = the number of
\* selected questions.
C29_OneRecordPerQuestion ==
    /\ Len(results) <= Len(all_questions)
    /\ Len(outcomes) = Len(results)
    /\ \A i \in DOMAIN results : RecordOf(i)
    /\ (stage = "loop" /\ Len(results) < Len(all_questions)) => ENABLED GenerateNext
    /\ stage = "returned" =>
           /\ ground_truth_data.ground_truth_answers = results
           /\ Len(results) = Len(all_questions)
           /\ ground_truth_data.metadata.num_questions = Len(all_questions)
           /\ ground_truth_data.metadata.total_successful
                  + ground_truth_data.metadata.total_errors
              = ground_truth_data.metadata.num_questions
           /\ ground_truth_data.metadata.total_errors
              = Cardinality({i \in DOMAIN outcomes : outcomes[i] = "Exception"})

\* The data are returned for three questions of which the first and the
\* third failed.
C29_Witness ==
    /\ stage = "returned"
    /\ outcomes = <<"Exception", "response", "Exception">>
    /\ ground_truth_data.metadata.total_errors = 2

====
